---- MODULE Spec2Model ----
(***************************************************************************)
(* Model of the uploadthing request-handling core                          *)
(* (packages/uploadthing/src/internal/handler.ts, createRequestHandler and *)
(* the handlers it dispatches to).  One behaviour is the life of one HTTP  *)
(* request against one configured handler, together with the daemon fiber  *)
(* the request forks.                                                      *)
(***************************************************************************)
EXTENDS Integers, Sequences, FiniteSets, TLC

(***************************************************************************)
(* Bounds of the model.                                                    *)
(***************************************************************************)
MaxFiles == 3
MaxStream == 2
MaxConcurrentFiles == 2

(***************************************************************************)
(* Values that stand for the environment of the handler.                   *)
(***************************************************************************)
ServerVersion == "7.0.0"
OtherVersion == "6.0.0"
ApiKey == "sk_live"
WrongKey == "sk_other"
AppId == "app"
MaxFileSize == 4

\* The route registry (opts.router) the handler is created with: one image
\* route, with the per-type rules as the route declares them.
Router ==
  [imageUploader |->
     [image |-> [maxFileSize |-> MaxFileSize,
                 maxFileCount |-> MaxFiles - 1,
                 acl |-> "public-read"]]]

\* The declared rules with the defaults filled in.
fillInputRouteConfig(routerConfig) ==
  [type \in DOMAIN routerConfig |->
     [maxFileSize |-> routerConfig[type].maxFileSize,
      maxFileCount |-> routerConfig[type].maxFileCount,
      minFileCount |-> 1,
      contentDisposition |-> "inline",
      acl |-> routerConfig[type].acl]]

RECURSIVE SlugList(_)
SlugList(slugs) ==
  IF slugs = {} THEN <<>>
  ELSE LET slug == CHOOSE x \in slugs : TRUE
       IN << slug >> \o SlugList(slugs \ {slug})

\* One {slug, config} per route of the registry, the config normalised.
extractRouterConfig(registry) ==
  [k \in 1..Len(SlugList(DOMAIN registry)) |->
     [slug |-> SlugList(DOMAIN registry)[k],
      config |-> fillInputRouteConfig(registry[SlugList(DOMAIN registry)[k]])]]

Slugs == DOMAIN Router

\* Files a client may declare ({name, size, type} of UploadActionPayload).
ClientFiles ==
  { [name |-> "a.png", size |-> 1, type |-> "image/png"],
    [name |-> "b.png", size |-> MaxFileSize, type |-> "image/png"],
    [name |-> "c.png", size |-> MaxFileSize + 1, type |-> "image/png"],
    [name |-> "d.pdf", size |-> 1, type |-> "application/pdf"] }

\* Per-file overrides a middleware may return under the UTFiles key.
OverrideChoices ==
  { [name |-> "none", customId |-> "id2", size |-> 1, lastModified |-> "none"],
    [name |-> "z.png", customId |-> "id1", size |-> MaxFileSize + 1, lastModified |-> "t1"],
    [name |-> "z.pdf", customId |-> "none", size |-> 1, lastModified |-> "none"] }

RECURSIVE SeqsUpTo(_, _)
SeqsUpTo(S, n) ==
  IF n = 0 THEN { <<>> }
  ELSE LET shorter == SeqsUpTo(S, n - 1)
       IN shorter \cup { Append(s, x) : s \in { t \in shorter : Len(t) = n - 1 }, x \in S }

NoKey == [name |-> "none", size |-> 0, nonce |-> 0]
NoUrl == [key |-> NoKey, name |-> "none", size |-> 0, customId |-> "none",
          slug |-> "none", signedWith |-> "none"]
NoMetadata == [userId |-> "none", hasFiles |-> FALSE, files |-> <<>>]
NoReq == [method |-> "none", clientVersion |-> "none", slug |-> "none",
          actionType |-> "none", hook |-> "none"]
NoBody == [kind |-> "none", entries |-> <<>>]
NoResp == [status |-> 0, kind |-> "none", code |-> "none", message |-> "none",
           cause |-> <<>>, entries |-> <<>>, versionHeader |-> "none"]
NoFiber == [status |-> "none", kind |-> "none", stage |-> "none",
            scope |-> "none", logged |-> "none", cause |-> "none",
            serverData |-> "none", ignored |-> <<>>]
NoPayload == [schemaOk |-> FALSE, fileKey |-> NoKey, metadata |-> NoMetadata]
NoSignature == [payload |-> NoPayload, secret |-> "none"]
NoCallback == [payload |-> NoPayload, signature |-> NoSignature]
NoCall == [kind |-> "none", fileKeys |-> <<>>, metadata |-> NoMetadata,
           isDev |-> FALSE, slug |-> "none", hook |-> "none", fileKey |-> NoKey,
           callbackData |-> "none", signature |-> NoSignature,
           version |-> "none", actionType |-> "none"]
NoLocals == [files |-> <<>>, metadata |-> NoMetadata, filesWithCustomIds |-> <<>>,
             fileUploadRequests |-> <<>>, presignedUrls |-> <<>>]
NoUpload == [pc |-> "idle", payload |-> <<>>, md |-> NoMetadata, nonces |-> {},
             resp |-> NoResp, registered |-> NoCall]
NoXhr == [state |-> "unsent", size |-> 0, rangeStart |-> 0, loaded |-> 0,
          previousLoaded |-> 0, delta |-> 0, status |-> 0, exit |-> "none"]

\* The upload actions in flight at the same time.
Requests == {1, 2}

VARIABLES
  isDevelopment,      \* IsDevelopment config
  handleDaemon,       \* opts.config.handleDaemonPromise: unset, void, await, fn
  pc,                 \* position of the request in createRequestHandler / handlers
  req,                \* headers and query parameters of the request
  files,              \* json.files of the upload payload
  metadata,           \* what the middleware returned
  filesWithCustomIds, \* runRouteMiddleware's reconciled files
  fileUploadRequests, \* handleUploadAction's fileUploadRequests
  presignedUrls,      \* result slots of the key/URL fan-out
  entropy,            \* randomness consumed by generateKey so far
  callback,           \* body and signature of a callback request
  out,                \* body returned by the handler
  fiber,              \* the daemon fiber forked by the handler
  stream,             \* records the dev-mode metadata stream has yielded
  resp,               \* the HTTP response
  failedAt,           \* step at which the request failed
  netCalls,           \* outbound HTTP calls made so far
  mwCalls,            \* invocations of the route's middleware
  resolverCalls,      \* invocations of the route's resolver
  daemonCalls,        \* invocations of a host-supplied handleDaemonPromise
  promise,            \* state of the promise handed to handleDaemonPromise
  handlers,           \* handlers the POST dispatch has invoked, in order
  handlerError,       \* error createRequestHandler failed with
  router,             \* opts.router, the route registry
  routerConfig,       \* createRequestHandler's routerConfig
  uploads,            \* concurrent upload actions: what each got and answered
  locals,             \* concurrent upload actions: the locals of each invocation
  xhr,                \* the client's XMLHttpRequest and the exit of its upload
  thrown              \* what user code (validator, resolver) has thrown

vars == << isDevelopment, handleDaemon, pc, req, files, metadata,
           filesWithCustomIds, fileUploadRequests, presignedUrls, entropy,
           callback, out, fiber, stream, resp, failedAt, netCalls, mwCalls,
           resolverCalls, daemonCalls, promise, handlers, handlerError,
           thrown, router, routerConfig, uploads, locals, xhr >>

confVars == << isDevelopment, handleDaemon, router, routerConfig >>
otherVars == << uploads, locals, xhr >>
uploadVars == << files, metadata, filesWithCustomIds, fileUploadRequests,
                 presignedUrls, entropy >>
ghostVars == << mwCalls, resolverCalls, daemonCalls >>

(***************************************************************************)
(* Error and response formatting.                                          *)
(***************************************************************************)
getStatusCodeFromError(code) ==
  CASE code = "BAD_REQUEST" -> 400
    [] code = "FORBIDDEN" -> 403
    [] code = "NOT_FOUND" -> 404
    [] OTHER -> 500

\* catchTags UploadThingError / ParseError followed by appendResponseHeaders.
\* `cause` is the cause of the UploadThingError the response is formatted
\* from, as the parts it is put together from.
ErrorResponseCause(code, message, cause) ==
  [status |-> getStatusCodeFromError(code), kind |-> "error", code |-> code,
   message |-> message, cause |-> cause, entries |-> <<>>,
   versionHeader |-> ServerVersion]

ErrorResponse(code, message) == ErrorResponseCause(code, message, <<>>)

\* HttpServerResponse.json(body) followed by appendResponseHeaders.
JsonResponse(body) ==
  [status |-> 200, kind |-> body.kind, code |-> "OK", message |-> "none",
   cause |-> <<>>, entries |-> body.entries, versionHeader |-> ServerVersion]

\* A defect (Effect.die) is not a tagged error: no catchTags branch and no
\* mapped header applies to it.
DefectResponse ==
  [status |-> 500, kind |-> "defect", code |-> "DEFECT", message |-> "none",
   cause |-> <<>>, entries |-> <<>>, versionHeader |-> "none"]

InitHandler ==
  /\ isDevelopment \in BOOLEAN
  /\ handleDaemon \in {"unset", "void", "await", "fn"}
  /\ pc = "create"
  /\ req = NoReq
  /\ files = <<>>
  /\ metadata = NoMetadata
  /\ filesWithCustomIds = <<>>
  /\ fileUploadRequests = <<>>
  /\ presignedUrls = <<>>
  /\ entropy = 0
  /\ callback = NoCallback
  /\ out = NoBody
  /\ fiber = NoFiber
  /\ stream = <<>>
  /\ resp = NoResp
  /\ failedAt = "none"
  /\ netCalls = <<>>
  /\ mwCalls = 0
  /\ resolverCalls = 0
  /\ daemonCalls = 0
  /\ promise = "none"
  /\ handlers = <<>>
  /\ handlerError = "none"
  /\ thrown = "none"
  /\ router = Router
  /\ routerConfig = <<>>

InitOther ==
  /\ uploads = [r \in Requests |-> NoUpload]
  /\ locals = [r \in Requests |-> NoLocals]
  /\ xhr = NoXhr

Init == InitHandler /\ InitOther

\* Variant: a ParseError is answered as the older handler answers it.
ParseErrorInternal ==
  ErrorResponse("INTERNAL_SERVER_ERROR",
                "An error occured while parsing input/output")

\* catchTags ParseError: BAD_REQUEST "Invalid input" with e.message as its
\* cause, sent with status 400.
ParseErrorResponse ==
  [ErrorResponseCause("BAD_REQUEST", "Invalid input", << "ParseError.message" >>)
     EXCEPT !.status = 400]

\* The request ends with an error response produced at step `stage`.
Fail(stage, response) ==
  /\ pc' = "done"
  /\ failedAt' = stage
  /\ resp' = response

(***************************************************************************)
(* createRequestHandler: configuration check, GET and the head of POST.    *)
(***************************************************************************)
\* Variant: the combination of development mode and "await" is let through.
ForbiddenConfigNever(isDev, policy) == FALSE

\* if (isDevelopment && handleDaemon === "await")
ForbiddenConfig(isDev, policy) == isDev /\ policy = "await"

createRequestHandler ==
  /\ pc = "create"
  /\ routerConfig' = extractRouterConfig(router)
  /\ IF ForbiddenConfig(isDevelopment, handleDaemon)
       THEN /\ pc' = "invalidConfig"
            /\ failedAt' = "config"
            /\ handlerError' = "INVALID_SERVER_CONFIG"
       ELSE /\ pc' = "idle"
            /\ UNCHANGED << failedAt, handlerError >>
  /\ UNCHANGED << isDevelopment, handleDaemon, router, otherVars, handlers, thrown, req,
                  uploadVars, callback, out, fiber, stream, resp, netCalls,
                  ghostVars, promise >>

\* HttpServerResponse.json(routerConfig)
GET ==
  /\ pc = "idle"
  /\ req' = [NoReq EXCEPT !.method = "GET"]
  /\ pc' = "done"
  /\ resp' = JsonResponse([kind |-> "routerConfig", entries |-> routerConfig])
  /\ UNCHANGED << confVars, otherVars, handlers, handlerError, thrown, uploadVars, callback, out, fiber, stream,
                  failedAt, netCalls, ghostVars, promise >>

\* S.optional(S.String, { default: () => pkgJson.version })
HeaderVersion(v) == IF v = "absent" THEN ServerVersion ELSE v

\* Variant: the two cases of the match are taken for one another.
MatchActionSwapped(actionType, hook) ==
  CASE actionType = "upload" /\ hook = "none" -> "callback"
    [] actionType = "none" /\ hook = "callback" -> "upload"
    [] OTHER -> "orElse"

\* Match.value({actionType, uploadthingHook}) of the POST handler.
MatchAction(actionType, hook) ==
  CASE actionType = "upload" /\ hook = "none" -> "upload"
    [] actionType = "none" /\ hook = "callback" -> "callback"
    [] OTHER -> "orElse"

\* Variant: the route is not looked up before dispatch.
RouteMissingNever(slug) == FALSE

\* const uploadable = opts.router[slug]; if (!uploadable)
RouteMissing(slug) == slug \notin DOMAIN router

\* Match.orElse(() => Effect.succeed({ body: null, fiber: null }))
MatchOrElse == [body |-> [kind |-> "null", entries |-> <<>>], fiber |-> NoFiber]

\* Variant: the error is raised without the two versions as its cause.
VersionMismatchBare(clientVersion) ==
  ErrorResponse("BAD_REQUEST", "Client version mismatch")

\* new UploadThingError({ code: "BAD_REQUEST", message: "Client version
\* mismatch", cause: `Server version: ${...}, Client version: ${...}` })
VersionMismatchResponse(clientVersion) ==
  ErrorResponseCause("BAD_REQUEST", "Client version mismatch",
                     << "Server version: ", ServerVersion,
                        ", Client version: ", clientVersion >>)

\* What the head of POST makes of a request with these headers and
\* parameters: turned away by the version check or by the slug lookup, or
\* the case of the match it falls into.
Dispatch(clientVersion, slug, actionType, hook) ==
  IF HeaderVersion(clientVersion) # ServerVersion THEN "version"
  ELSE IF RouteMissing(slug) THEN "slug"
  ELSE MatchAction(actionType, hook)

\* Variant: the route is looked up before the versions are compared.
POSTSlugFirst(clientVersion, slug, actionType, hook) ==
  /\ pc = "idle"
  /\ req' = [method |-> "POST", clientVersion |-> clientVersion, slug |-> slug,
             actionType |-> actionType, hook |-> hook]
  /\ IF RouteMissing(slug)
       THEN /\ Fail("slug", ErrorResponse("NOT_FOUND", "No file route found for slug"))
            /\ UNCHANGED << out, handlers >>
       ELSE IF HeaderVersion(clientVersion) # ServerVersion
         THEN /\ Fail("version", VersionMismatchResponse(HeaderVersion(clientVersion)))
              /\ UNCHANGED << out, handlers >>
         ELSE CASE MatchAction(actionType, hook) = "upload" ->
                     /\ pc' = "upload"
                     /\ handlers' = Append(handlers, "handleUploadAction")
                     /\ UNCHANGED << out, failedAt, resp >>
                [] MatchAction(actionType, hook) = "callback" ->
                     /\ pc' = "callback"
                     /\ handlers' = Append(handlers, "handleCallbackRequest")
                     /\ UNCHANGED << out, failedAt, resp >>
                [] OTHER ->
                     /\ pc' = "daemon"
                     /\ out' = MatchOrElse.body
                     /\ UNCHANGED << failedAt, resp, handlers >>
  /\ UNCHANGED << confVars, otherVars, handlerError, thrown, uploadVars, callback, fiber, stream, netCalls,
                  ghostVars, promise >>

POST(clientVersion, slug, actionType, hook) ==
  /\ pc = "idle"
  /\ req' = [method |-> "POST", clientVersion |-> clientVersion, slug |-> slug,
             actionType |-> actionType, hook |-> hook]
  /\ IF HeaderVersion(clientVersion) # ServerVersion
       THEN /\ Fail("version", VersionMismatchResponse(HeaderVersion(clientVersion)))
            /\ UNCHANGED << out, handlers >>
       ELSE IF RouteMissing(slug)
         THEN /\ Fail("slug", ErrorResponse("NOT_FOUND", "No file route found for slug"))
              /\ UNCHANGED << out, handlers >>
         ELSE CASE MatchAction(actionType, hook) = "upload" ->
                     /\ pc' = "upload"
                     /\ handlers' = Append(handlers, "handleUploadAction")
                     /\ UNCHANGED << out, failedAt, resp >>
                [] MatchAction(actionType, hook) = "callback" ->
                     /\ pc' = "callback"
                     /\ handlers' = Append(handlers, "handleCallbackRequest")
                     /\ UNCHANGED << out, failedAt, resp >>
                [] OTHER ->
                     /\ pc' = "daemon"
                     /\ out' = MatchOrElse.body
                     /\ UNCHANGED << failedAt, resp, handlers >>
  /\ UNCHANGED << confVars, otherVars, handlerError, thrown, uploadVars, callback, fiber, stream, netCalls,
                  ghostVars, promise >>


(***************************************************************************)
(* handleUploadAction, steps 1-5.                                          *)
(***************************************************************************)
\* HttpServerRequest.schemaBodyJson(UploadActionPayload)
UploadParseBody ==
  /\ pc = "upload"
  /\ \/ /\ Fail("body", ParseErrorResponse)
        /\ UNCHANGED files
     \/ \E fs \in SeqsUpTo(ClientFiles, MaxFiles) :
          /\ files' = fs
          /\ pc' = "input"
          /\ UNCHANGED << failedAt, resp >>
  /\ UNCHANGED << confVars, otherVars, handlers, handlerError, thrown, req, metadata, filesWithCustomIds,
                  fileUploadRequests, presignedUrls, entropy, callback, out,
                  fiber, stream, netCalls, ghostVars, promise >>

\* What an input validator may throw.
InputErrors == {"ZodError", "TypeError"}

\* Variant: the validation error is replaced, not wrapped.
InputErrorBare(error) == ErrorResponse("BAD_REQUEST", "Invalid input")

\* catch: (error) => new UploadThingError({ code: "BAD_REQUEST",
\*   message: "Invalid input", cause: error })
InputErrorResponse(error) ==
  ErrorResponseCause("BAD_REQUEST", "Invalid input", << error >>)

\* Variant: an input the validator rejects is handed on to the middleware.
UploadParseInputLenient ==
  /\ pc = "input"
  /\ \/ \E error \in InputErrors :
          /\ thrown' = error
          /\ pc' = "middleware"
          /\ UNCHANGED << failedAt, resp >>
     \/ /\ pc' = "middleware"
        /\ UNCHANGED << failedAt, resp, thrown >>
  /\ UNCHANGED << confVars, otherVars, handlers, handlerError, req, uploadVars, callback, out, fiber, stream,
                  netCalls, ghostVars, promise >>

\* getParseFn(inputParser)(json.input)
UploadParseInput ==
  /\ pc = "input"
  /\ \/ \E error \in InputErrors :
          /\ thrown' = error
          /\ Fail("input", InputErrorResponse(error))
     \/ /\ pc' = "middleware"
        /\ UNCHANGED << failedAt, resp, thrown >>
  /\ UNCHANGED << confVars, otherVars, handlers, handlerError, req, uploadVars, callback, out, fiber, stream,
                  netCalls, ghostVars, promise >>

\* Variant: only an override list that is too short is rejected.
OverrideShorterOnly(md, fs) == md.hasFiles /\ Len(md.files) < Len(fs)

\* metadata[UTFiles] && metadata[UTFiles].length !== files.length
OverrideLengthMismatch(md, fs) == md.hasFiles /\ Len(md.files) # Len(fs)

\* Variant: the size of the override is adopted like its name.
ReconcileFileTheirSize(md, fs, idx) ==
  LET file == fs[idx]
      hasTheirs == md.hasFiles
      theirs == md.files[idx]
  IN [name |-> IF hasTheirs /\ theirs.name # "none" THEN theirs.name ELSE file.name,
      size |-> IF hasTheirs THEN theirs.size ELSE file.size,
      type |-> file.type,
      customId |-> IF hasTheirs THEN theirs.customId ELSE "none",
      lastModified |-> IF hasTheirs /\ theirs.lastModified # "none"
                         THEN theirs.lastModified ELSE "now"]

\* The element of filesWithCustomIds built for file idx.
ReconcileFile(md, fs, idx) ==
  LET file == fs[idx]
      hasTheirs == md.hasFiles
      theirs == md.files[idx]
  IN [name |-> IF hasTheirs /\ theirs.name # "none" THEN theirs.name ELSE file.name,
      size |-> file.size,
      type |-> file.type,
      customId |-> IF hasTheirs THEN theirs.customId ELSE "none",
      lastModified |-> IF hasTheirs /\ theirs.lastModified # "none"
                         THEN theirs.lastModified ELSE "now"]

\* Values the route's middleware may return.
MiddlewareResults ==
  { [userId |-> "u1", hasFiles |-> FALSE, files |-> <<>>] }
  \cup { [userId |-> "u1", hasFiles |-> TRUE, files |-> os] :
           os \in SeqsUpTo(OverrideChoices, MaxFiles) }

\* UploadThingErrors a middleware may throw, with their code and message.
UploadThingErrors ==
  [e \in {"UploadThingError:FORBIDDEN", "UploadThingError:NOT_FOUND"} |->
     IF e = "UploadThingError:FORBIDDEN"
       THEN [code |-> "FORBIDDEN", message |-> "Not allowed"]
       ELSE [code |-> "NOT_FOUND", message |-> "No such user"]]

\* What a middleware may throw or reject with.
MiddlewareErrors == DOMAIN UploadThingErrors \cup {"Error", "string"}

\* error instanceof UploadThingError
IsUploadThingError(error) == error \in DOMAIN UploadThingErrors

\* Variant: whatever the middleware throws is wrapped.
MiddlewareErrorWrapped(error) ==
  ErrorResponseCause("INTERNAL_SERVER_ERROR", "Failed to run middleware",
                     << error >>)

\* catch: (error) => error instanceof UploadThingError ? error
\*   : new UploadThingError({ code: "INTERNAL_SERVER_ERROR",
\*       message: "Failed to run middleware", cause: error })
MiddlewareError(error) ==
  IF IsUploadThingError(error)
    THEN ErrorResponse(UploadThingErrors[error].code,
                       UploadThingErrors[error].message)
    ELSE ErrorResponseCause("INTERNAL_SERVER_ERROR", "Failed to run middleware",
                            << error >>)

runRouteMiddleware ==
  /\ pc = "middleware"
  /\ mwCalls' = mwCalls + 1
  /\ \/ \E error \in MiddlewareErrors :
          /\ thrown' = error
          /\ Fail("middleware", MiddlewareError(error))
          /\ UNCHANGED << metadata, filesWithCustomIds >>
     \/ \E md \in MiddlewareResults :
          /\ UNCHANGED thrown
          /\ metadata' = md
          /\ IF OverrideLengthMismatch(md, files)
               THEN /\ Fail("overrides",
                            ErrorResponse("BAD_REQUEST",
                                          "Files override must have the same length as files"))
                    /\ UNCHANGED filesWithCustomIds
               ELSE /\ filesWithCustomIds' =
                         [idx \in 1..Len(files) |-> ReconcileFile(md, files, idx)]
                    /\ pc' = "validate"
                    /\ UNCHANGED << failedAt, resp >>
  /\ UNCHANGED << confVars, otherVars, handlers, handlerError, req, files, fileUploadRequests, presignedUrls,
                  entropy, callback, out, fiber, stream, netCalls,
                  resolverCalls, daemonCalls, promise >>

\* The magic type of a file name's extension (mime lookup of the name).
MimeGroup(name) ==
  CASE name \in {"a.png", "b.png", "c.png", "z.png"} -> "image"
    [] name \in {"d.pdf", "z.pdf"} -> "pdf"
    [] OTHER -> "unknown"

getTypeFromFileName(name, allowedTypes) ==
  IF MimeGroup(name) \in allowedTypes THEN MimeGroup(name)
  ELSE IF "blob" \in allowedTypes THEN "blob"
  ELSE "InvalidFileType"

CountOfType(fs, config, type) ==
  Cardinality({ i \in 1..Len(fs) : getTypeFromFileName(fs[i].name, DOMAIN config) = type })

\* "ok" or the tag of the first violated rule.
assertFilesMeetConfig(fs, config) ==
  IF \E i \in 1..Len(fs) : getTypeFromFileName(fs[i].name, DOMAIN config) = "InvalidFileType"
    THEN "InvalidFileType"
  ELSE IF \E i \in 1..Len(fs) :
            fs[i].size > config[getTypeFromFileName(fs[i].name, DOMAIN config)].maxFileSize
    THEN "FileSizeMismatch"
  ELSE IF \E type \in DOMAIN config :
            /\ CountOfType(fs, config, type) > 0
            /\ \/ CountOfType(fs, config, type) < config[type].minFileCount
               \/ CountOfType(fs, config, type) > config[type].maxFileCount
    THEN "FileCountMismatch"
  ELSE "ok"

\* const parsedConfig = yield* fillInputRouteConfig(uploadable._def.routerConfig)
ParsedConfig(slug) == fillInputRouteConfig(router[slug])

\* Variant: the parsed config is stored back into the registry.
UploadValidateFilesStoring ==
  /\ pc = "validate"
  /\ router' = [router EXCEPT ![req.slug] = ParsedConfig(req.slug)]
  /\ IF assertFilesMeetConfig(files, ParsedConfig(req.slug)) # "ok"
       THEN Fail("files", ErrorResponse("BAD_REQUEST", "Invalid config"))
       ELSE /\ pc' = "requests"
            /\ UNCHANGED << failedAt, resp >>
  /\ UNCHANGED << isDevelopment, handleDaemon, routerConfig, otherVars, handlers,
                  handlerError, thrown, req, uploadVars, callback, out, fiber,
                  stream, netCalls, ghostVars, promise >>

\* Variant: the keys are derived before the files are validated.
UploadValidateFilesAfterKeys ==
  /\ pc = "validate"
  /\ entropy' = entropy + Len(files)
  /\ IF assertFilesMeetConfig(files, ParsedConfig(req.slug)) # "ok"
       THEN Fail("files", ErrorResponse("BAD_REQUEST", "Invalid config"))
       ELSE /\ pc' = "requests"
            /\ UNCHANGED << failedAt, resp >>
  /\ UNCHANGED << confVars, otherVars, handlers, handlerError, thrown, req, files, metadata, filesWithCustomIds,
                  fileUploadRequests, presignedUrls, callback, out, fiber,
                  stream, netCalls, ghostVars, promise >>

\* Variant: a violated rule is not turned into a failure of the request.
UploadValidateFilesUnchecked ==
  /\ pc = "validate"
  /\ pc' = "requests"
  /\ UNCHANGED << confVars, otherVars, handlers, handlerError, thrown, req, uploadVars, callback, out, fiber, stream,
                  resp, failedAt, netCalls, ghostVars, promise >>

\* fillInputRouteConfig + assertFilesMeetConfig(json.files, parsedConfig)
UploadValidateFiles ==
  /\ pc = "validate"
  /\ IF assertFilesMeetConfig(files, ParsedConfig(req.slug)) # "ok"
       THEN Fail("files", ErrorResponse("BAD_REQUEST", "Invalid config"))
       ELSE /\ pc' = "requests"
            /\ UNCHANGED << failedAt, resp >>
  /\ UNCHANGED << confVars, otherVars, handlers, handlerError, thrown, req, uploadVars, callback, out, fiber, stream,
                  netCalls, ghostVars, promise >>

\* One element of fileUploadRequests.
FileUploadRequest(file, config) ==
  LET type == getTypeFromFileName(file.name, DOMAIN config)
  IN [name |-> file.name, size |-> file.size, type |-> file.type,
      lastModified |-> file.lastModified, customId |-> file.customId,
      contentDisposition |-> config[type].contentDisposition,
      acl |-> config[type].acl]

PendingSlot == [st |-> "pending", key |-> NoKey, url |-> NoUrl]

\* Effect.forEach(filesWithCustomIds, getTypeFromFileName ...), dying on
\* InvalidFileType / UnknownFileType; then the fan-out of step 6 starts.
UploadBuildRequests ==
  /\ pc = "requests"
  /\ LET config == ParsedConfig(req.slug)
     IN IF \E i \in 1..Len(filesWithCustomIds) :
             getTypeFromFileName(filesWithCustomIds[i].name, DOMAIN config) = "InvalidFileType"
          THEN /\ Fail("defect", DefectResponse)
               /\ UNCHANGED << fileUploadRequests, presignedUrls >>
          ELSE /\ fileUploadRequests' =
                    [i \in 1..Len(filesWithCustomIds) |->
                       FileUploadRequest(filesWithCustomIds[i], config)]
               /\ presignedUrls' = [i \in 1..Len(filesWithCustomIds) |-> PendingSlot]
               /\ pc' = "generate"
               /\ UNCHANGED << failedAt, resp >>
  /\ UNCHANGED << confVars, otherVars, handlers, handlerError, thrown, req, files, metadata, filesWithCustomIds, entropy,
                  callback, out, fiber, stream, netCalls, ghostVars, promise >>

(***************************************************************************)
(* handleUploadAction, step 6: the unbounded-concurrency key/URL fan-out.  *)
(***************************************************************************)
generateKey(file, nonce) == [name |-> file.name, size |-> file.size, nonce |-> nonce]

generateSignedURL(key, apiKey, file, slug) ==
  [key |-> key, name |-> file.name, size |-> file.size,
   customId |-> file.customId, slug |-> slug, signedWith |-> apiKey]

\* Variant: results are collected in the order the tasks finish.
CollectInFinishOrder(results, i, r) ==
  LET j == CHOOSE j \in DOMAIN results :
             /\ results[j].st = "pending"
             /\ \A k \in DOMAIN results : k < j => results[k].st # "pending"
  IN [results EXCEPT ![j] = r]

\* Effect.forEach puts the result of the task for element i at index i.
CollectResult(results, i, r) == [results EXCEPT ![i] = r]

\* A failing task fails the forEach, which interrupts the tasks still running.
InterruptPending(results) ==
  [i \in DOMAIN results |->
     IF results[i].st = "pending" THEN [results[i] EXCEPT !.st = "interrupted"]
     ELSE results[i]]

\* Variant: the forEach waits for every task and succeeds with whatever settled.
ForEachExitSettled(results) ==
  IF \A i \in DOMAIN results : results[i].st # "pending" THEN "succeed" ELSE "running"

\* How the forEach stands: it fails as soon as one task has failed and
\* succeeds once every task has produced its result.
ForEachExit(results) ==
  IF \E i \in DOMAIN results : results[i].st = "failed" THEN "fail"
  ELSE IF \A i \in DOMAIN results : results[i].st = "done" THEN "succeed"
  ELSE "running"

\* The task of file i finishes with { url, key }.
GenerateDone(i) ==
  /\ pc = "generate"
  /\ i \in DOMAIN fileUploadRequests
  /\ presignedUrls[i].st = "pending"
  /\ LET key == generateKey(fileUploadRequests[i], entropy + 1)
         url == generateSignedURL(key, ApiKey, fileUploadRequests[i], req.slug)
     IN presignedUrls' =
          CollectResult(presignedUrls, i, [st |-> "done", key |-> key, url |-> url])
  /\ entropy' = entropy + 1
  /\ UNCHANGED << confVars, otherVars, handlers, handlerError, thrown, pc, req, files, metadata, filesWithCustomIds,
                  fileUploadRequests, callback, out, fiber, stream, resp,
                  failedAt, netCalls, ghostVars, promise >>

\* The task of file i fails: the whole forEach, and with it the request, fails.
GenerateFail(i) ==
  /\ pc = "generate"
  /\ i \in DOMAIN fileUploadRequests
  /\ presignedUrls[i].st = "pending"
  /\ LET results == CollectResult(presignedUrls, i,
                                  [st |-> "failed", key |-> NoKey, url |-> NoUrl])
     IN IF ForEachExit(results) = "fail"
          THEN /\ presignedUrls' = InterruptPending(results)
               /\ Fail("generate", ErrorResponse("BAD_REQUEST", "Invalid signing secret"))
          ELSE /\ presignedUrls' = results
               /\ UNCHANGED << pc, failedAt, resp >>
  /\ UNCHANGED << confVars, otherVars, handlers, handlerError, thrown, req, files, metadata, filesWithCustomIds,
                  fileUploadRequests, entropy, callback, out, fiber, stream,
                  netCalls, ghostVars, promise >>

(***************************************************************************)
(* handleUploadAction, steps 7-8: fork the daemon, return the presigneds.  *)
(***************************************************************************)
\* Variant: the entries are named after the files the client declared.
PresignedsClientNames(urls, requests) ==
  [i \in DOMAIN urls |->
     [url |-> urls[i].url, key |-> urls[i].key, name |-> files[i].name,
      customId |-> "null"]]

\* presignedUrls.map((p, i) => ({url, key, name,
\*   customId: fileUploadRequests[i].customId ?? null}))
Presigneds(urls, requests) ==
  [i \in DOMAIN urls |->
     [url |-> urls[i].url, key |-> urls[i].key, name |-> requests[i].name,
      customId |-> IF requests[i].customId = "none"
                     THEN "null" ELSE requests[i].customId]]

\* Variant: Effect.fork, a child of the fiber that handles the request.
ForkChildScope == "request"

\* Effect.forkDaemon: the fiber lives in the global scope, not in the scope
\* of the fiber that handles the request.
ForkDaemonScope == "global"

ForkDaemon(kind) ==
  [status |-> "running", kind |-> kind, stage |-> "forked",
   scope |-> ForkDaemonScope, logged |-> "none", cause |-> "none",
   serverData |-> "none", ignored |-> <<>>]

\* Variant: the fiber is forked as soon as the first key is there.
UploadForkEager ==
  /\ pc = "generate"
  /\ \E i \in DOMAIN presignedUrls : presignedUrls[i].st = "done"
  /\ fiber' = ForkDaemon(IF isDevelopment THEN "devStream" ELSE "metadata")
  /\ out' = [kind |-> "presigneds",
             entries |-> Presigneds(presignedUrls, fileUploadRequests)]
  /\ pc' = "daemon"
  /\ UNCHANGED << confVars, otherVars, handlers, handlerError, thrown, req, uploadVars, callback, stream, resp, failedAt,
                  netCalls, ghostVars, promise >>

UploadForkAndReturn ==
  /\ pc = "generate"
  /\ ForEachExit(presignedUrls) = "succeed"
  /\ fiber' = ForkDaemon(IF isDevelopment THEN "devStream" ELSE "metadata")
  /\ out' = [kind |-> "presigneds",
             entries |-> Presigneds(presignedUrls, fileUploadRequests)]
  /\ pc' = "daemon"
  /\ UNCHANGED << confVars, otherVars, handlers, handlerError, thrown, req, uploadVars, callback, stream, resp, failedAt,
                  netCalls, ghostVars, promise >>

(***************************************************************************)
(* Outbound calls.                                                         *)
(***************************************************************************)
Sign(payload, secret) == [payload |-> payload, secret |-> secret]

verifySignature(payload, signature, secret) == signature = Sign(payload, secret)

\* A request as HttpClientRequest.post builds it: without a version header
\* and without an actionType parameter, until one is set.
Call(kind) ==
  [kind |-> kind, fileKeys |-> <<>>, metadata |-> NoMetadata, isDev |-> FALSE,
   slug |-> "none", hook |-> "none", fileKey |-> NoKey,
   callbackData |-> "none", signature |-> NoSignature,
   version |-> "absent", actionType |-> "none"]

\* Variant: the keys of the POST are derived anew, one per file in the
\* order of the files, and not taken from the results of the fan-out.
metadataRequestKeysAnew ==
  [Call("route-metadata") EXCEPT
     !.fileKeys = [i \in DOMAIN fileUploadRequests |->
                     generateKey(fileUploadRequests[i], i)],
     !.metadata = metadata,
     !.isDev = isDevelopment,
     !.slug = req.slug,
     !.version = ServerVersion]

\* HttpClientRequest.post("/route-metadata") with its jsonBody
metadataRequest ==
  [Call("route-metadata") EXCEPT
     !.fileKeys = [i \in DOMAIN presignedUrls |-> presignedUrls[i].key],
     !.metadata = metadata,
     !.isDev = isDevelopment,
     !.slug = req.slug,
     !.version = ServerVersion]

\* Variant: the simulated callback also names an action.
callbackRequestAsAction(record) ==
  [Call("callback") EXCEPT
     !.slug = req.slug,
     !.hook = "callback",
     !.actionType = "upload",
     !.fileKey = record.payload.fileKey,
     !.metadata = record.payload.metadata,
     !.signature = record.signature]

\* callbackRequest with the signature header and body of one stream record
callbackRequest(record) ==
  [Call("callback") EXCEPT
     !.slug = req.slug,
     !.hook = "callback",
     !.fileKey = record.payload.fileKey,
     !.metadata = record.payload.metadata,
     !.signature = record.signature]

\* Variant: the resolver's result is sent as it is.
callbackResultRaw(fileKey, serverData) ==
  [Call("callback-result") EXCEPT
     !.fileKey = fileKey,
     !.callbackData = serverData,
     !.version = ServerVersion]

\* HttpClientRequest.post("/callback-result") with its jsonBody
\* { fileKey: requestInput.file.key, callbackData: serverData ?? null }
callbackResultRequest(fileKey, serverData) ==
  [Call("callback-result") EXCEPT
     !.fileKey = fileKey,
     !.callbackData = IF serverData \in {"undefined", "null"}
                        THEN "null" ELSE serverData,
     !.version = ServerVersion]

(***************************************************************************)
(* The daemon fiber of an upload action.                                   *)
(***************************************************************************)
\* Effect.ignoreLogged: a failure is logged and the fiber ends normally.
FiberEnd(f, failure) == [f EXCEPT !.status = "done", !.stage = "ended", !.logged = failure]

FiberVars == << confVars, otherVars, handlers, handlerError, thrown, pc, req, uploadVars, callback, out, resp, failedAt,
                ghostVars, promise >>

\* The fiber starts running and sends the route-metadata POST.
MetadataSend ==
  /\ fiber.status = "running"
  /\ fiber.kind \in {"metadata", "devStream"}
  /\ fiber.stage = "forked"
  /\ netCalls' = Append(netCalls, metadataRequest)
  /\ fiber' = [fiber EXCEPT !.stage = "sent"]
  /\ UNCHANGED << FiberVars, stream >>

\* Production: filterStatusOk and schemaBodyJsonScoped(MetadataFetchResponse).
MetadataResponse(failure) ==
  /\ fiber.status = "running"
  /\ fiber.kind = "metadata"
  /\ fiber.stage = "sent"
  /\ fiber' = FiberEnd(fiber, failure)
  /\ UNCHANGED << FiberVars, stream, netCalls >>

\* Records {payload, signature} the ingest service may stream for this
\* upload: one for each file, as the files complete uploading.
StreamRecords ==
  { [payload |-> [schemaOk |-> TRUE, fileKey |-> presignedUrls[i].key, metadata |-> metadata],
     signature |-> Sign([schemaOk |-> TRUE, fileKey |-> presignedUrls[i].key,
                         metadata |-> metadata], ApiKey)] :
      i \in DOMAIN presignedUrls }

\* Development: the next chunk of the stream is decoded
\* (Stream.mapEffect(S.decode(...))): a record, or a ParseError that ends
\* the stream.
DevStreamRecord ==
  /\ fiber.status = "running"
  /\ fiber.kind = "devStream"
  /\ fiber.stage = "sent"
  /\ Len(stream) < MaxStream
  /\ \/ /\ fiber' = FiberEnd(fiber, "ParseError")
        /\ UNCHANGED stream
     \/ \E record \in StreamRecords :
          /\ \A k \in 1..Len(stream) : stream[k] # record
          /\ stream' = Append(stream, record)
          /\ fiber' = [fiber EXCEPT !.stage = "record"]
  /\ UNCHANGED << FiberVars, netCalls >>

\* Variant: once a simulated callback has failed, the records that follow
\* are drained without a callback.
DevCallbackSendUnlessFailed ==
  /\ fiber.status = "running"
  /\ fiber.kind = "devStream"
  /\ fiber.stage = "record"
  /\ IF \E k \in 1..Len(fiber.ignored) : fiber.ignored[k] # "none"
       THEN /\ UNCHANGED netCalls
            /\ fiber' = [fiber EXCEPT !.stage = "sent"]
       ELSE /\ netCalls' = Append(netCalls, callbackRequest(stream[Len(stream)]))
            /\ fiber' = [fiber EXCEPT !.stage = "calling"]
  /\ UNCHANGED << FiberVars, stream >>

\* Development: the callback of the record just decoded is simulated, with
\* the record's signature as header and its payload as body.
DevCallbackSend ==
  /\ fiber.status = "running"
  /\ fiber.kind = "devStream"
  /\ fiber.stage = "record"
  /\ netCalls' = Append(netCalls, callbackRequest(stream[Len(stream)]))
  /\ fiber' = [fiber EXCEPT !.stage = "calling"]
  /\ UNCHANGED << FiberVars, stream >>

\* Variant: a failed simulated callback fails the stream.
SimulatedCallbackFails(failure) == failure

\* Effect.ignoreLogged on the simulated callback: its failure is logged and
\* the stream goes on.
SimulatedCallbackExit(failure) == "none"

\* Development: the simulated callback is over; the next record is pulled
\* only now (Stream.mapEffect runs one effect at a time).  What the
\* callback's ignoreLogged writes to the log is not kept.
DevCallbackDone(failure) ==
  /\ fiber.status = "running"
  /\ fiber.kind = "devStream"
  /\ fiber.stage = "calling"
  /\ fiber' = IF SimulatedCallbackExit(failure) = "none"
                THEN [fiber EXCEPT !.stage = "sent"]
                ELSE FiberEnd(fiber, SimulatedCallbackExit(failure))
  /\ UNCHANGED << FiberVars, stream, netCalls >>

\* Development: the simulated callback is over, as in DevCallbackDone, and
\* whether its Effect.ignoreLogged had a failure to log, of either kind, is
\* kept in fiber.ignored ("none" for a callback that went through).
DevCallbackLogged(failure) ==
  /\ fiber.status = "running"
  /\ fiber.kind = "devStream"
  /\ fiber.stage = "calling"
  /\ fiber' = IF SimulatedCallbackExit(failure) = "none"
                THEN [fiber EXCEPT !.stage = "sent",
                                   !.ignored =
                                     Append(@, IF failure = "none"
                                                 THEN "none" ELSE "failed")]
                ELSE FiberEnd(fiber, SimulatedCallbackExit(failure))
  /\ UNCHANGED << FiberVars, stream, netCalls >>

\* Development: the stream ends, normally or with a transport failure.
DevStreamEnd(failure) ==
  /\ fiber.status = "running"
  /\ fiber.kind = "devStream"
  /\ fiber.stage = "sent"
  /\ fiber' = FiberEnd(fiber, failure)
  /\ UNCHANGED << FiberVars, stream, netCalls >>

(***************************************************************************)
(* handleCallbackRequest and its daemon fiber.                             *)
(***************************************************************************)
\* Bodies a callback request may carry; schemaOk tells whether the body
\* decodes as {status, file, metadata}.
CallbackPayloads ==
  { [schemaOk |-> ok, fileKey |-> generateKey(f, 1),
     metadata |-> [userId |-> "u1", hasFiles |-> FALSE, files |-> <<>>]] :
      ok \in BOOLEAN, f \in { g \in ClientFiles : g.size < MaxFileSize } }

\* Values the x-uploadthing-signature header of a callback request may have.
CallbackSignatures(payload) ==
  { Sign(payload, ApiKey), Sign(payload, WrongKey),
    Sign([payload EXCEPT !.schemaOk = ~payload.schemaOk], ApiKey), NoSignature }

\* Variant: the result of the verification is not acted upon.
SignatureNeverRejected(verified) == FALSE

\* if (!verified) return yield* new UploadThingError(BAD_REQUEST)
SignatureRejected(verified) == ~verified

handleCallbackRequest ==
  /\ pc = "callback"
  /\ \E payload \in CallbackPayloads : \E signature \in CallbackSignatures(payload) :
       /\ callback' = [payload |-> payload, signature |-> signature]
       /\ IF SignatureRejected(verifySignature(payload, signature, ApiKey))
            THEN /\ Fail("signature", ErrorResponse("BAD_REQUEST", "Invalid signature"))
                 /\ UNCHANGED << fiber, out >>
            ELSE IF ~payload.schemaOk
              THEN /\ Fail("schema", ParseErrorResponse)
                   /\ UNCHANGED << fiber, out >>
              ELSE /\ fiber' = ForkDaemon("callback")
                   /\ out' = [kind |-> "null", entries |-> <<>>]
                   /\ pc' = "daemon"
                   /\ UNCHANGED << failedAt, resp >>
  /\ UNCHANGED << confVars, otherVars, handlers, handlerError, thrown, req, uploadVars, stream, netCalls, ghostVars,
                  promise >>

\* What a resolver may return, and what it may throw or reject with.
ResolverResults == {"data", "undefined", "null"}
ResolverErrors == {"Error", "UploadThingError:FORBIDDEN"}

\* Variant: what the resolver throws is the failure of the fiber.
ResolverErrorUnwrapped(error) ==
  [code |-> error, message |-> error, cause |-> "none"]

\* catch: (error) => new UploadThingError({ code: "INTERNAL_SERVER_ERROR",
\*   message: "Failed to run onUploadComplete...", cause: error })
ResolverErrorWrapped(error) ==
  [code |-> "INTERNAL_SERVER_ERROR",
   message |-> "Failed to run onUploadComplete. You probably shouldn't be throwing errors here.",
   cause |-> error]

\* The fiber runs uploadable.resolver; when it returns, the callback-result
\* POST is sent; when it throws, the wrapped error is logged.
CallbackRunResolver(outcome) ==
  /\ fiber.status = "running"
  /\ fiber.kind = "callback"
  /\ fiber.stage = "forked"
  /\ resolverCalls' = resolverCalls + 1
  /\ IF outcome \in ResolverErrors
       THEN /\ thrown' = outcome
            /\ fiber' = FiberEnd([fiber EXCEPT
                                    !.cause = ResolverErrorWrapped(outcome).cause],
                                 ResolverErrorWrapped(outcome).code)
            /\ UNCHANGED netCalls
       ELSE /\ netCalls' = Append(netCalls,
                                  callbackResultRequest(callback.payload.fileKey, outcome))
            /\ fiber' = [fiber EXCEPT !.stage = "sent", !.serverData = outcome]
            /\ UNCHANGED thrown
  /\ UNCHANGED << confVars, otherVars, handlers, handlerError, pc, req, uploadVars, callback, out, stream, resp,
                  failedAt, mwCalls, daemonCalls, promise >>

\* filterStatusOk and schemaBodyJsonScoped(CallbackResultResponse).
CallbackResultResponse(failure) ==
  /\ fiber.status = "running"
  /\ fiber.kind = "callback"
  /\ fiber.stage = "sent"
  /\ fiber' = FiberEnd(fiber, failure)
  /\ UNCHANGED << FiberVars, stream, netCalls >>

(***************************************************************************)
(* The tail of POST: daemon handling and the response.                     *)
(***************************************************************************)
FiberExited(f) == f.status \in {"done", "interrupted"}

\* Variant: every policy waits for the fiber.
AwaitsAlways(policy) == TRUE

\* Variant: no policy waits for the fiber.
AwaitsNothing(policy) == FALSE

\* handleDaemon === "await": yield* fiber.await
AwaitsFiber(policy) == policy = "await"

\* typeof handleDaemon === "function": handleDaemon(Effect.runPromise(fiber.await))
NotifiesHost(policy) == policy = "fn"

\* When the fiber handling the request ends, the fibers of its own scope are
\* interrupted; a fiber of the global scope is left alone.
EndRequestScope(f) ==
  IF f.status = "running" /\ f.scope = "request"
    THEN [f EXCEPT !.status = "interrupted"]
    ELSE f

\* Variant: the daemon handling does not look at whether a fiber was forked.
HasFiberAlways(f) == TRUE

\* if (fiber)
HasFiber(f) == f.status # "none"

\* Variant: the "await" policy joins the fiber, so a failure of the fiber
\* becomes a failure of the request.
RespondJoining ==
  /\ pc = "daemon"
  /\ (HasFiber(fiber) /\ AwaitsFiber(handleDaemon)) => FiberExited(fiber)
  /\ IF HasFiber(fiber) /\ NotifiesHost(handleDaemon)
       THEN /\ daemonCalls' = daemonCalls + 1
            /\ promise' = "pending"
       ELSE UNCHANGED << daemonCalls, promise >>
  /\ resp' = IF HasFiber(fiber) /\ AwaitsFiber(handleDaemon) /\ fiber.logged # "none"
               THEN ErrorResponse("INTERNAL_SERVER_ERROR", fiber.logged)
               ELSE JsonResponse(out)
  /\ pc' = "done"
  /\ fiber' = EndRequestScope(fiber)
  /\ UNCHANGED << confVars, otherVars, handlers, handlerError, thrown, req, uploadVars, callback, out, stream, failedAt,
                  netCalls, mwCalls, resolverCalls >>

Respond ==
  /\ pc = "daemon"
  /\ (HasFiber(fiber) /\ AwaitsFiber(handleDaemon)) => FiberExited(fiber)
  /\ IF HasFiber(fiber) /\ NotifiesHost(handleDaemon)
       THEN /\ daemonCalls' = daemonCalls + 1
            /\ promise' = "pending"
       ELSE UNCHANGED << daemonCalls, promise >>
  /\ resp' = JsonResponse(out)
  /\ pc' = "done"
  /\ fiber' = EndRequestScope(fiber)
  /\ UNCHANGED << confVars, otherVars, handlers, handlerError, thrown, req, uploadVars, callback, out, stream, failedAt,
                  netCalls, mwCalls, resolverCalls >>

\* Effect.runPromise(fiber.await) settles once the fiber has exited.
PromiseSettle ==
  /\ promise = "pending"
  /\ FiberExited(fiber)
  /\ promise' = "settled"
  /\ UNCHANGED << confVars, otherVars, handlers, handlerError, thrown, pc, req, uploadVars, callback, out, fiber, stream,
                  resp, failedAt, netCalls, ghostVars >>

Failures == {"none", "RequestError", "ResponseError", "ParseError"}

Next ==
  \/ createRequestHandler
  \/ GET
  \/ \E v \in {"absent", ServerVersion, OtherVersion} :
       \E slug \in Slugs \cup {"unknownSlug"} :
         \E actionType \in {"upload", "none"} :
           \E hook \in {"callback", "none"} : POST(v, slug, actionType, hook)
  \/ UploadParseBody
  \/ UploadParseInput
  \/ runRouteMiddleware
  \/ UploadValidateFiles
  \/ UploadBuildRequests
  \/ \E i \in 1..MaxFiles : GenerateDone(i)
  \/ \E i \in 1..MaxFiles : GenerateFail(i)
  \/ UploadForkAndReturn
  \/ MetadataSend
  \/ \E failure \in Failures : MetadataResponse(failure)
  \/ DevStreamRecord
  \/ DevCallbackSend
  \/ \E failure \in {"none", "RequestError", "ResponseError"} : DevCallbackDone(failure)
  \/ \E failure \in {"none", "RequestError", "ResponseError"} : DevStreamEnd(failure)
  \/ handleCallbackRequest
  \/ \E outcome \in ResolverResults \cup ResolverErrors : CallbackRunResolver(outcome)
  \/ \E failure \in Failures : CallbackResultResponse(failure)
  \/ Respond
  \/ PromiseSettle

Spec == Init /\ [][Next]_vars

\* The handler takes the next request once the one before is over and what
\* it forked has ended.
NewRequest ==
  /\ pc = "done"
  /\ fiber.status # "running"
  /\ promise # "pending"
  /\ pc' = "idle"
  /\ req' = NoReq
  /\ files' = <<>>
  /\ metadata' = NoMetadata
  /\ filesWithCustomIds' = <<>>
  /\ fileUploadRequests' = <<>>
  /\ presignedUrls' = <<>>
  /\ entropy' = 0
  /\ callback' = NoCallback
  /\ out' = NoBody
  /\ fiber' = NoFiber
  /\ stream' = <<>>
  /\ resp' = NoResp
  /\ failedAt' = "none"
  /\ netCalls' = <<>>
  /\ mwCalls' = 0
  /\ resolverCalls' = 0
  /\ daemonCalls' = 0
  /\ promise' = "none"
  /\ handlers' = <<>>
  /\ thrown' = "none"
  /\ UNCHANGED << confVars, otherVars, handlerError >>

NextServe == Next \/ NewRequest

\* One handler serving request after request.
SpecServe == Init /\ [][NextServe]_vars

(***************************************************************************)
(* The handler of a development server with the default daemon handling,   *)
(* observed together with the log of its simulated callbacks.              *)
(***************************************************************************)
InitDev ==
  /\ Init
  /\ isDevelopment
  /\ handleDaemon = "unset"

NextDev ==
  \/ createRequestHandler
  \/ GET
  \/ \E v \in {"absent", ServerVersion, OtherVersion} :
       \E slug \in Slugs \cup {"unknownSlug"} :
         \E actionType \in {"upload", "none"} :
           \E hook \in {"callback", "none"} : POST(v, slug, actionType, hook)
  \/ UploadParseBody
  \/ UploadParseInput
  \/ runRouteMiddleware
  \/ UploadValidateFiles
  \/ UploadBuildRequests
  \/ \E i \in 1..MaxFiles : GenerateDone(i)
  \/ \E i \in 1..MaxFiles : GenerateFail(i)
  \/ UploadForkAndReturn
  \/ MetadataSend
  \/ DevStreamRecord
  \/ DevCallbackSend
  \/ \E failure \in {"none", "RequestError", "ResponseError"} : DevCallbackLogged(failure)
  \/ \E failure \in {"none", "RequestError", "ResponseError"} : DevStreamEnd(failure)
  \/ handleCallbackRequest
  \/ \E outcome \in ResolverResults \cup ResolverErrors : CallbackRunResolver(outcome)
  \/ \E failure \in Failures : CallbackResultResponse(failure)
  \/ Respond

SpecDev == InitDev /\ [][NextDev]_vars

(***************************************************************************)
(* Two upload actions handled at the same time.  Each invocation of        *)
(* handleUploadAction has its own locals; the registry, the signing key    *)
(* and the source of randomness are the handler's.                         *)
(***************************************************************************)
requestVars == << pc, req, files, metadata, filesWithCustomIds,
                  fileUploadRequests, presignedUrls, callback, out, fiber,
                  stream, resp, failedAt, netCalls, ghostVars, promise,
                  handlers, handlerError, thrown >>

\* Payloads and middleware results of the concurrent upload actions.
TwoPayloads(r) ==
  { fs \in SeqsUpTo({ f \in ClientFiles :
                        f.name \in {IF r = 1 THEN "a.png" ELSE "b.png", "c.png"} },
                    MaxConcurrentFiles) : Len(fs) > 0 }

TwoMiddlewareResults(fs) ==
  { [userId |-> "u1", hasFiles |-> FALSE, files |-> <<>>],
    [userId |-> "u2", hasFiles |-> TRUE,
     files |-> [i \in 1..Len(fs) |-> CHOOSE o \in OverrideChoices : o.name = "z.png"]],
    [userId |-> "u3", hasFiles |-> TRUE,
     files |-> << CHOOSE o \in OverrideChoices : o.customId = "id2" >>] }

TwoSlug == CHOOSE slug \in Slugs : TRUE

\* Variant: the locals are kept in one place for all invocations.
ScopeShared(r) == 1

\* Effect.gen(function* () { const ... }): the locals of handleUploadAction
\* and runRouteMiddleware belong to the invocation.
Scope(r) == r

\* json = yield* HttpServerRequest.schemaBodyJson(UploadActionPayload)
TwoParse(r, fs) ==
  /\ uploads[r].pc = "idle"
  /\ uploads' = [uploads EXCEPT ![r].pc = "middleware", ![r].payload = fs]
  /\ locals' = [locals EXCEPT ![Scope(r)].files = fs]
  /\ UNCHANGED << confVars, requestVars, entropy, xhr >>

\* runRouteMiddleware: the middleware's result, the length check and the
\* reconciliation, on the files of this invocation.
TwoMiddleware(r, md) ==
  /\ uploads[r].pc = "middleware"
  /\ LET fs == locals[Scope(r)].files
     IN IF OverrideLengthMismatch(md, fs)
          THEN /\ uploads' = [uploads EXCEPT
                     ![r].pc = "done", ![r].md = md,
                     ![r].resp = ErrorResponse("BAD_REQUEST",
                                   "Files override must have the same length as files")]
               /\ UNCHANGED locals
          ELSE /\ uploads' = [uploads EXCEPT ![r].pc = "validate", ![r].md = md]
               /\ locals' = [locals EXCEPT
                     ![Scope(r)].metadata = md,
                     ![Scope(r)].filesWithCustomIds =
                        [idx \in 1..Len(fs) |-> ReconcileFile(md, fs, idx)]]
  /\ UNCHANGED << confVars, requestVars, entropy, xhr >>

\* assertFilesMeetConfig(json.files, parsedConfig), then fileUploadRequests.
TwoValidate(r) ==
  /\ uploads[r].pc = "validate"
  /\ LET own == locals[Scope(r)]
         config == ParsedConfig(TwoSlug)
     IN IF assertFilesMeetConfig(own.files, config) # "ok"
          THEN /\ uploads' = [uploads EXCEPT
                     ![r].pc = "done",
                     ![r].resp = ErrorResponse("BAD_REQUEST", "Invalid config")]
               /\ UNCHANGED locals
          ELSE /\ uploads' = [uploads EXCEPT ![r].pc = "generate"]
               /\ locals' = [locals EXCEPT
                     ![Scope(r)].fileUploadRequests =
                        [i \in 1..Len(own.filesWithCustomIds) |->
                           FileUploadRequest(own.filesWithCustomIds[i], config)],
                     ![Scope(r)].presignedUrls =
                        [i \in 1..Len(own.filesWithCustomIds) |-> PendingSlot]]
  /\ UNCHANGED << confVars, requestVars, entropy, xhr >>

\* One task of the forEach of this invocation generates its key and URL.
TwoGenerate(r, i) ==
  /\ uploads[r].pc = "generate"
  /\ i \in DOMAIN locals[Scope(r)].presignedUrls
  /\ locals[Scope(r)].presignedUrls[i].st = "pending"
  /\ LET own == locals[Scope(r)]
         key == generateKey(own.fileUploadRequests[i], entropy + 1)
         url == generateSignedURL(key, ApiKey, own.fileUploadRequests[i], TwoSlug)
     IN locals' = [locals EXCEPT
          ![Scope(r)].presignedUrls =
             CollectResult(own.presignedUrls, i,
                           [st |-> "done", key |-> key, url |-> url])]
  /\ entropy' = entropy + 1
  /\ uploads' = [uploads EXCEPT ![r].nonces = @ \cup {entropy + 1}]
  /\ UNCHANGED << confVars, requestVars, xhr >>

\* The presigneds of this invocation are returned.
TwoRespond(r) ==
  /\ uploads[r].pc = "generate"
  /\ ForEachExit(locals[Scope(r)].presignedUrls) = "succeed"
  /\ LET own == locals[Scope(r)]
     IN uploads' = [uploads EXCEPT
          ![r].pc = "daemon",
          ![r].resp = JsonResponse([kind |-> "presigneds",
                        entries |-> Presigneds(own.presignedUrls,
                                               own.fileUploadRequests)])]
  /\ UNCHANGED << confVars, requestVars, entropy, locals, xhr >>

\* The fiber of this invocation sends its route-metadata POST.
TwoRegister(r) ==
  /\ uploads[r].pc = "daemon"
  /\ LET own == locals[Scope(r)]
     IN uploads' = [uploads EXCEPT
          ![r].pc = "done",
          ![r].registered =
             [Call("route-metadata") EXCEPT
                !.fileKeys = [i \in DOMAIN own.presignedUrls |-> own.presignedUrls[i].key],
                !.metadata = own.metadata,
                !.isDev = isDevelopment,
                !.slug = TwoSlug,
                !.version = ServerVersion]]
  /\ UNCHANGED << confVars, requestVars, entropy, locals, xhr >>

InitTwo ==
  /\ InitHandler
  /\ ~ isDevelopment
  /\ handleDaemon = "unset"
  /\ InitOther

NextTwo ==
  \E r \in Requests :
    \/ \E fs \in TwoPayloads(r) : TwoParse(r, fs)
    \/ \E md \in TwoMiddlewareResults(uploads[r].payload) : TwoMiddleware(r, md)
    \/ TwoValidate(r)
    \/ \E i \in 1..MaxConcurrentFiles : TwoGenerate(r, i)
    \/ TwoRespond(r)
    \/ TwoRegister(r)

SpecTwo == InitTwo /\ [][NextTwo]_vars

(***************************************************************************)
(* The client-side transfer: uploadWithProgress.                           *)
(***************************************************************************)
handlerVars == << confVars, requestVars, entropy, uploads, locals >>

\* Statuses the PUT may be answered with.
ClientStatuses == {199, 200, 204, 299, 300, 404, 500}

\* new XMLHttpRequest(); open; setRequestHeader("Range"); send(formData)
uploadWithProgress(size, rangeStart) ==
  /\ xhr.state = "unsent"
  /\ xhr' = [xhr EXCEPT !.state = "sending", !.size = size,
                        !.rangeStart = rangeStart]
  /\ UNCHANGED handlerVars

\* xhr.upload "progress": delta = loaded - previousLoaded is reported.
XhrProgress(loaded) ==
  /\ xhr.state = "sending"
  /\ loaded > xhr.loaded
  /\ loaded <= xhr.size - xhr.rangeStart
  /\ xhr' = [xhr EXCEPT !.loaded = loaded,
                        !.delta = loaded - xhr.previousLoaded,
                        !.previousLoaded = loaded]
  /\ UNCHANGED handlerVars

\* xhr.status >= 200 && xhr.status < 300 ? Micro.succeed(xhr.response)
\*   : Micro.die(`XHR failed ...`)
LoadExit(status) ==
  IF status >= 200 /\ status < 300 THEN "success" ELSE "die"

\* resume(...) settles the Micro once; after an interruption it is ignored.
Resume(x, exit) == IF x.exit = "none" THEN [x EXCEPT !.exit = exit] ELSE x

\* "load": the transfer is over and the server has answered.
XhrLoad(status) ==
  /\ xhr.state = "sending"
  /\ xhr' = Resume([xhr EXCEPT !.state = "loaded", !.status = status],
                   LoadExit(status))
  /\ UNCHANGED handlerVars

\* "error": the transfer failed at the network level.
XhrError ==
  /\ xhr.state = "sending"
  /\ xhr' = Resume([xhr EXCEPT !.state = "errored"], "UPLOAD_FAILED")
  /\ UNCHANGED handlerVars

\* Variant: the Micro has no finalizer.
OnInterruptNothing(x) == x

\* return Micro.sync(() => xhr.abort())
OnInterrupt(x) == [x EXCEPT !.state = "aborted"]

\* The caller interrupts the upload while it is pending.
Interrupt ==
  /\ xhr.state = "sending"
  /\ xhr.exit = "none"
  /\ xhr' = OnInterrupt([xhr EXCEPT !.exit = "interrupted"])
  /\ UNCHANGED handlerVars

InitClient ==
  /\ InitHandler
  /\ ~ isDevelopment
  /\ handleDaemon = "unset"
  /\ InitOther

NextClient ==
  \/ \E size \in 1..MaxFileSize : \E rangeStart \in 0..(size - 1) :
       uploadWithProgress(size, rangeStart)
  \/ \E loaded \in 1..MaxFileSize : XhrProgress(loaded)
  \/ \E status \in ClientStatuses : XhrLoad(status)
  \/ XhrError
  \/ Interrupt

SpecClient == InitClient /\ [][NextClient]_vars

(***************************************************************************)
(* Properties.                                                             *)
(***************************************************************************)
Responded == pc = "done"

UploadSucceeded == Responded /\ resp.kind = "presigneds"

\* The name file i is uploaded under: the override's when the middleware
\* gave one, the client's otherwise.
ExpectedName(i) ==
  IF metadata.hasFiles /\ metadata.files[i].name # "none"
    THEN metadata.files[i].name
    ELSE files[i].name

\* C1: a successful upload action answers with exactly one presigned entry
\* per input file, and entry i carries the key and url generated for file i
\* and the (possibly overridden) name of file i, whatever order the
\* generation tasks finished in.
C1_OnePresignedPerFileInOrder ==
  UploadSucceeded =>
    /\ Len(resp.entries) = Len(files)
    /\ \A i \in 1..Len(files) :
         LET e == resp.entries[i]
         IN /\ e.name = ExpectedName(i)
            /\ e.key.name = ExpectedName(i)
            /\ e.key.size = files[i].size
            /\ e.url.key = e.key
            /\ e.url.name = ExpectedName(i)
            /\ e.url.size = files[i].size

\* Two differently named files whose tasks finished in the reverse order.
C1_Witness ==
  /\ UploadSucceeded
  /\ Len(resp.entries) = 2
  /\ resp.entries[1].name # resp.entries[2].name
  /\ resp.entries[1].key.nonce > resp.entries[2].key.nonce

GenerationFailed == \E i \in DOMAIN presignedUrls : presignedUrls[i].st = "failed"

\* C2: when key or URL generation fails for one file, the request fails as
\* a whole: the response is an error without any presigned entry and the
\* metadata-registration fiber is never forked; a response never carries
\* entries for only some of the files.
C2_AllOrNothing ==
  /\ GenerationFailed =>
       /\ Responded
       /\ resp.kind = "error"
       /\ resp.entries = <<>>
       /\ out = NoBody
       /\ fiber = NoFiber
       /\ netCalls = <<>>
  /\ resp.kind = "presigneds" =>
       /\ Len(resp.entries) = Len(files)
       /\ \A i \in DOMAIN presignedUrls : presignedUrls[i].st = "done"

\* One file's URL had been generated when another file's generation failed.
C2_Witness ==
  /\ GenerationFailed
  /\ \E i \in DOMAIN presignedUrls : presignedUrls[i].st = "done"

EarlySteps == {"input", "middleware", "overrides", "files"}

\* C3: when an upload action fails in one of steps 1-5, no outbound call
\* has been made and no key or presigned URL has been generated, at the
\* time of the failure and ever after.
C3_EarlyFailureMakesNoCall ==
  failedAt \in EarlySteps =>
    /\ netCalls = <<>>
    /\ entropy = 0
    /\ presignedUrls = <<>>
    /\ fiber = NoFiber
    /\ resp.kind = "error"

\* A batch of several files has failed file validation.
C3_Witness ==
  /\ failedAt = "files"
  /\ Len(files) > 1
  /\ mwCalls = 1

\* C4: when the middleware returns an override list whose length differs
\* from the number of files, the upload action fails with BAD_REQUEST and
\* makes no outbound call.
C4_OverrideLengthMismatchRejected ==
  (metadata.hasFiles /\ Len(metadata.files) # Len(files)) =>
    /\ Responded
    /\ resp.kind = "error"
    /\ resp.code = "BAD_REQUEST"
    /\ resp.status = 400
    /\ netCalls = <<>>
    /\ fiber = NoFiber
    /\ entropy = 0

\* The middleware returned more overrides than there are files.
C4_Witness ==
  /\ metadata.hasFiles
  /\ Len(metadata.files) > Len(files)
  /\ Len(files) > 0
  /\ Responded

ImageCount == Cardinality({ i \in 1..Len(files) : MimeGroup(files[i].name) = "image" })

\* Some declared file is larger than its type allows, or there are more
\* files of a type than the route allows.
FileRuleViolated ==
  \/ \E i \in 1..Len(files) :
       /\ MimeGroup(files[i].name) = "image"
       /\ files[i].size > ParsedConfig(req.slug).image.maxFileSize
  \/ /\ Len(files) > 0
     /\ ImageCount > ParsedConfig(req.slug).image.maxFileCount

\* C5 as stated: whenever a file is over its size limit (or the batch
\* violates a count bound) the upload action fails with BAD_REQUEST and no
\* presigned URL is generated.
C5_AsStated ==
  (FileRuleViolated /\ Responded) =>
    /\ resp.kind = "error"
    /\ resp.code = "BAD_REQUEST"
    /\ entropy = 0

\* C5 (amended): whenever a file is over its size limit (or the batch
\* violates a count bound) the upload action fails and no key or presigned
\* URL is generated for any file of the batch; the failure is BAD_REQUEST
\* unless the middleware, which runs before file validation, threw.
C5_RuleViolationFailsBatch ==
  FileRuleViolated =>
    /\ entropy = 0
    /\ presignedUrls = <<>>
    /\ fiber = NoFiber
    /\ netCalls = <<>>
    /\ pc \in {"input", "middleware", "validate", "done"}
    /\ Responded =>
         /\ resp.kind = "error"
         /\ failedAt # "middleware" => (resp.code = "BAD_REQUEST" /\ resp.status = 400)

\* A batch with one oversized and one acceptable file failed file validation.
C5_Witness ==
  /\ failedAt = "files"
  /\ Len(files) = 2
  /\ \E i \in 1..2 : files[i].size > MaxFileSize
  /\ \E i \in 1..2 : files[i].size <= MaxFileSize /\ MimeGroup(files[i].name) = "image"

SignatureInvalid ==
  /\ callback # NoCallback
  /\ ~verifySignature(callback.payload, callback.signature, ApiKey)

\* C6: a callback request whose signature does not verify against the API
\* key is answered with BAD_REQUEST "Invalid signature"; its payload is not
\* parsed, the resolver is never invoked, no fiber is forked and no
\* callback-result POST is sent.
C6_InvalidSignatureRejected ==
  SignatureInvalid =>
    /\ Responded
    /\ resp.kind = "error"
    /\ resp.code = "BAD_REQUEST"
    /\ resp.status = 400
    /\ resp.message = "Invalid signature"
    /\ failedAt = "signature"
    /\ resolverCalls = 0
    /\ fiber = NoFiber
    /\ netCalls = <<>>
    /\ daemonCalls = 0
    /\ promise = "none"

\* The signature was made with the API key, but over another body.
C6_Witness ==
  /\ SignatureInvalid
  /\ callback.signature.secret = ApiKey
  /\ callback.payload.schemaOk

\* C7: a failure of the metadata-registration fiber never changes the
\* upload response: under every daemon policy the client gets the success
\* body with all presigned entries, and a response once produced stays.
C7_RegistrationFailureInvisible ==
  /\ [](  (Responded /\ fiber.kind \in {"metadata", "devStream"}) =>
            /\ resp.status = 200
            /\ resp.kind = "presigneds"
            /\ Len(resp.entries) = Len(files)
            /\ \A i \in 1..Len(files) :
                 /\ resp.entries[i].key = presignedUrls[i].key
                 /\ resp.entries[i].url = presignedUrls[i].url )
  /\ [][ resp # NoResp => resp' = resp ]_vars

\* The response was awaited on a registration that failed with a non-2xx.
C7_Witness ==
  /\ Responded
  /\ handleDaemon = "await"
  /\ fiber.kind = "metadata"
  /\ fiber.logged = "ResponseError"
  /\ resp.kind = "presigneds"
  /\ Len(resp.entries) = 2

\* C8: with the policy unset or "void" the response is produced without
\* waiting for the forked fiber, and no step interrupts the fiber: from
\* running it only goes on running or ends by itself.
C8_ResponseDoesNotWait ==
  /\ []( (pc = "daemon" /\ handleDaemon \in {"unset", "void"}) => ENABLED Respond )
  /\ [][ (handleDaemon \in {"unset", "void"} /\ fiber.status = "running")
           => fiber'.status \in {"running", "done"} ]_vars

\* The response is out while the fiber has not even started.
C8_Witness ==
  /\ Responded
  /\ handleDaemon \in {"unset", "void"}
  /\ fiber.status = "running"
  /\ fiber.stage = "forked"

\* C9: with the policy "await" the response is produced only after the
\* fiber forked by the request has finished, successfully or not.
C9_AwaitBeforeResponse ==
  (handleDaemon = "await" /\ Responded /\ fiber # NoFiber) => fiber.status = "done"

\* A callback was answered after its resolver had thrown.
C9_Witness ==
  /\ handleDaemon = "await"
  /\ Responded
  /\ fiber.kind = "callback"
  /\ fiber.logged = "INTERNAL_SERVER_ERROR"

\* C10: a host-supplied policy function is invoked exactly once for a
\* request that forked a fiber, with a promise that settles only once the
\* fiber has finished; it is not invoked for a request that forked none,
\* and the response does not wait for the fiber.
C10_HostNotifiedOnce ==
  /\ daemonCalls = IF handleDaemon = "fn" /\ Responded /\ fiber # NoFiber THEN 1 ELSE 0
  /\ (promise # "none") <=> (daemonCalls = 1)
  /\ promise = "settled" => fiber.status = "done"
  /\ (promise = "pending" /\ fiber.status = "done") => ENABLED PromiseSettle
  /\ (handleDaemon = "fn" /\ pc = "daemon") => ENABLED Respond

\* The host holds a pending promise for a fiber that is still running.
C10_Witness ==
  /\ handleDaemon = "fn"
  /\ Responded
  /\ fiber.status = "running"
  /\ promise = "pending"
  /\ daemonCalls = 1

\* C11: with development mode on and the policy "await", creating the
\* request handler fails with INVALID_SERVER_CONFIG and no request is ever
\* processed: no handler, middleware or resolver runs, no fiber is forked.
C11_ForbiddenConfigProcessesNothing ==
  /\ (isDevelopment /\ handleDaemon = "await") =>
       /\ pc \in {"create", "invalidConfig"}
       /\ pc = "invalidConfig" => handlerError = "INVALID_SERVER_CONFIG"
       /\ req = NoReq
       /\ resp = NoResp
       /\ handlers = <<>>
       /\ mwCalls = 0
       /\ resolverCalls = 0
       /\ fiber = NoFiber
       /\ netCalls = <<>>
  /\ handlerError # "none" => (isDevelopment /\ handleDaemon = "await")

\* The creation of the handler has failed.
C11_Witness ==
  /\ isDevelopment
  /\ handleDaemon = "await"
  /\ pc = "invalidConfig"
  /\ handlerError = "INVALID_SERVER_CONFIG"

\* The POST passed the version check and the slug lookup.
Classified ==
  /\ req.method = "POST"
  /\ HeaderVersion(req.clientVersion) = ServerVersion
  /\ req.slug \in Slugs

\* C12: for a POST with a known slug and a matching version, hook
\* "callback" without actionType runs the callback handler and only it,
\* and actionType "upload" without hook runs the upload handler and only
\* it: exactly one handler runs.
C12_DispatchByHookAndAction ==
  Classified =>
    /\ (req.hook = "callback" /\ req.actionType = "none") =>
         /\ handlers = << "handleCallbackRequest" >>
         /\ files = <<>>
         /\ mwCalls = 0
         /\ entropy = 0
         /\ fiber.kind \in {"none", "callback"}
    /\ (req.actionType = "upload" /\ req.hook = "none") =>
         /\ handlers = << "handleUploadAction" >>
         /\ callback = NoCallback
         /\ resolverCalls = 0
         /\ fiber.kind \in {"none", "metadata", "devStream"}

\* An upload request got all the way to its presigned URLs.
C12_Witness ==
  /\ Classified
  /\ req.actionType = "upload"
  /\ req.hook = "none"
  /\ handlers = << "handleUploadAction" >>
  /\ UploadSucceeded
  /\ Len(resp.entries) > 0

Unclassifiable ==
  /\ Classified
  /\ \/ req.hook = "callback" /\ req.actionType = "upload"
     \/ req.hook = "none" /\ req.actionType = "none"

\* C13: a combination of hook header and actionType other than
\* (callback, none) and (none, upload) fails fast: the request ends in an
\* error outcome, not in a success response, and no handler runs.
C13_AsStated ==
  (Unclassifiable /\ Responded) =>
    /\ resp.kind \in {"error", "defect"}
    /\ resp.status >= 400
    /\ handlers = <<>>

\* C14 as stated: a POST whose slug is not in the route registry fails with
\* NOT_FOUND and nothing is executed for it.
C14_AsStated ==
  (req.method = "POST" /\ req.slug \notin Slugs) =>
    /\ Responded
    /\ resp.code = "NOT_FOUND"
    /\ handlers = <<>>

\* C14 (amended): a POST whose slug is not in the route registry fails with
\* NOT_FOUND when its version header matches or is absent, and with
\* BAD_REQUEST when its version mismatches, for upload and callback
\* requests alike; no handler, middleware, resolver or outbound call is
\* executed for it.
C14_UnknownSlugRejected ==
  (req.method = "POST" /\ req.slug \notin Slugs) =>
    /\ Responded
    /\ resp.kind = "error"
    /\ IF HeaderVersion(req.clientVersion) = ServerVersion
         THEN resp.code = "NOT_FOUND" /\ resp.status = 404 /\ failedAt = "slug"
         ELSE resp.code = "BAD_REQUEST" /\ resp.status = 400 /\ failedAt = "version"
    /\ handlers = <<>>
    /\ mwCalls = 0
    /\ resolverCalls = 0
    /\ netCalls = <<>>
    /\ fiber = NoFiber
    /\ entropy = 0

\* A callback request for an unknown slug was answered NOT_FOUND.
C14_Witness ==
  /\ req.method = "POST"
  /\ req.slug \notin Slugs
  /\ req.hook = "callback"
  /\ req.actionType = "none"
  /\ resp.code = "NOT_FOUND"

Contains(parts, part) == \E k \in 1..Len(parts) : parts[k] = part

VersionMismatch ==
  /\ req.method = "POST"
  /\ HeaderVersion(req.clientVersion) # ServerVersion

CallbackAccepted ==
  /\ Classified
  /\ handlers = << "handleCallbackRequest" >>
  /\ fiber.kind = "callback"

\* C16: a callback request that passes the signature check and the schema
\* is answered 200 with the body null; unless the policy is "await" the
\* response can be produced at once, whatever the resolver and the
\* callback-result POST are doing; and whatever happens to that POST, the
\* response, once produced, stays what it is.
C16_CallbackAnsweredNull ==
  /\ []( (CallbackAccepted /\ Responded) =>
            /\ resp.status = 200
            /\ resp.kind = "null"
            /\ resp.entries = <<>>
            /\ failedAt = "none" )
  /\ []( (CallbackAccepted /\ pc = "daemon" /\ handleDaemon # "await")
            => ENABLED Respond )
  /\ [][ (CallbackAccepted /\ Responded) => resp' = resp ]_vars

\* The callback was answered before its resolver had started.
C16_Witness ==
  /\ CallbackAccepted
  /\ Responded
  /\ handleDaemon \in {"unset", "void", "fn"}
  /\ fiber.status = "running"
  /\ fiber.stage = "forked"
  /\ resolverCalls = 0
  /\ resp.kind = "null"

\* C17: what the resolver throws or rejects with is caught and wrapped in
\* an INTERNAL_SERVER_ERROR that has it as its cause; the fiber logs the
\* wrapped error and ends normally, and the response stays the success.
C17_ResolverErrorWrapped ==
  (fiber.kind = "callback" /\ thrown # "none") =>
    /\ thrown \in ResolverErrors
    /\ resolverCalls = 1
    /\ fiber.status = "done"
    /\ fiber.logged = "INTERNAL_SERVER_ERROR"
    /\ fiber.cause = thrown
    /\ Responded => (resp.status = 200 /\ resp.kind = "null")

\* The resolver threw an UploadThingError of its own, under "await".
C17_Witness ==
  /\ fiber.kind = "callback"
  /\ thrown = "UploadThingError:FORBIDDEN"
  /\ fiber.logged = "INTERNAL_SERVER_ERROR"
  /\ handleDaemon = "await"
  /\ Responded

CallbackResultCalls == SelectSeq(netCalls, LAMBDA c : c.kind = "callback-result")

\* C18: the callback-result POST is sent at most once, and exactly when
\* the resolver has returned; it carries the file key of the callback
\* payload and the resolver's result, null standing for null and
\* undefined; when the resolver fails no such POST is sent.
C18_CallbackResultSentOnce ==
  /\ Len(CallbackResultCalls) =
       IF fiber.kind = "callback" /\ fiber.serverData # "none" THEN 1 ELSE 0
  /\ Len(CallbackResultCalls) = 1 =>
       /\ CallbackAccepted
       /\ resolverCalls = 1
       /\ thrown = "none"
       /\ fiber.serverData \in ResolverResults
       /\ CallbackResultCalls[1].fileKey = callback.payload.fileKey
       /\ CallbackResultCalls[1].callbackData =
            IF fiber.serverData = "data" THEN "data" ELSE "null"
  /\ (fiber.kind = "callback" /\ thrown # "none") => CallbackResultCalls = <<>>

\* The resolver returned undefined and null was sent.
C18_Witness ==
  /\ fiber.kind = "callback"
  /\ fiber.serverData = "undefined"
  /\ Len(CallbackResultCalls) = 1
  /\ CallbackResultCalls[1].callbackData = "null"
  /\ fiber.status = "done"

\* The callback request carries a valid signature and a body that does not
\* decode as {status, file, metadata}.
SchemaMismatch ==
  /\ callback # NoCallback
  /\ verifySignature(callback.payload, callback.signature, ApiKey)
  /\ ~callback.payload.schemaOk

C20_InvalidInputRejected ==
  /\ failedAt = "input" =>
       /\ Responded
       /\ thrown \in InputErrors
       /\ resp.kind = "error"
       /\ resp.code = "BAD_REQUEST"
       /\ resp.status = 400
       /\ resp.cause = << thrown >>
       /\ mwCalls = 0
       /\ metadata = NoMetadata
       /\ entropy = 0
       /\ netCalls = <<>>
       /\ fiber = NoFiber
  /\ (thrown \in InputErrors) => failedAt = "input"

\* The validator threw on an upload request that carried files.
C20_Witness ==
  /\ failedAt = "input"
  /\ thrown = "ZodError"
  /\ Len(files) > 0
  /\ handlers = << "handleUploadAction" >>
  /\ Responded

\* C21: an UploadThingError thrown by the middleware fails the upload
\* action with that error, its code and message unchanged; anything else
\* the middleware throws fails it with INTERNAL_SERVER_ERROR "Failed to run
\* middleware", the thrown value appearing only as the cause.
C21_MiddlewareErrorSurfaced ==
  /\ failedAt = "middleware" =>
       /\ Responded
       /\ thrown \in MiddlewareErrors
       /\ mwCalls = 1
       /\ resp.kind = "error"
       /\ IF thrown \in DOMAIN UploadThingErrors
            THEN /\ resp.code = UploadThingErrors[thrown].code
                 /\ resp.message = UploadThingErrors[thrown].message
                 /\ resp.status = getStatusCodeFromError(UploadThingErrors[thrown].code)
            ELSE /\ resp.code = "INTERNAL_SERVER_ERROR"
                 /\ resp.message = "Failed to run middleware"
                 /\ resp.status = 500
                 /\ resp.cause = << thrown >>
       /\ entropy = 0
       /\ netCalls = <<>>
       /\ fiber = NoFiber
  /\ (handlers = << "handleUploadAction" >> /\ thrown \in MiddlewareErrors)
       => failedAt = "middleware"

\* The middleware threw an UploadThingError and the client got it.
C21_Witness ==
  /\ failedAt = "middleware"
  /\ thrown = "UploadThingError:FORBIDDEN"
  /\ resp.code = "FORBIDDEN"
  /\ resp.status = 403
  /\ Len(files) > 0

\* The middleware returned overrides, one per file.
OverridesAccepted ==
  /\ handlers = << "handleUploadAction" >>
  /\ metadata.hasFiles
  /\ Len(metadata.files) = Len(files)

\* Some override declares another size than the client did.
OverrideSizeDiffers ==
  /\ OverridesAccepted
  /\ \E i \in 1..Len(files) : metadata.files[i].size # files[i].size

\* C22: the size of every reconciled file, of every file upload request
\* and of every generated key and signed URL is the size the client
\* declared; an override with another size is accepted, and when such a
\* request fails it fails for the client's files, an override's name or
\* the signing, not for the size.
C22_SizeFromClient ==
  /\ \A i \in DOMAIN filesWithCustomIds : filesWithCustomIds[i].size = files[i].size
  /\ \A i \in DOMAIN fileUploadRequests : fileUploadRequests[i].size = files[i].size
  /\ \A i \in DOMAIN presignedUrls :
       presignedUrls[i].st = "done" =>
         /\ presignedUrls[i].url.size = files[i].size
         /\ presignedUrls[i].key.size = files[i].size
  /\ OverrideSizeDiffers =>
       /\ Len(filesWithCustomIds) = Len(files)
       /\ failedAt \in {"none", "files", "defect", "generate"}
       /\ failedAt = "files" => assertFilesMeetConfig(files, ParsedConfig(req.slug)) # "ok"
       /\ failedAt = "defect" =>
            \E i \in 1..Len(files) :
              getTypeFromFileName(filesWithCustomIds[i].name,
                                  DOMAIN ParsedConfig(req.slug)) = "InvalidFileType"

\* An upload whose override declared another size got its URLs, signed
\* for the client's size.
C22_Witness ==
  /\ UploadSucceeded
  /\ OverrideSizeDiffers
  /\ \E i \in 1..Len(files) :
       /\ metadata.files[i].size > files[i].size
       /\ resp.entries[i].url.size = files[i].size

\* C23: entry i of the response is named after override i when the
\* middleware gave it a name and after the client's file otherwise; its
\* customId is that of override i when it has one and null otherwise; with
\* no overrides every entry has the client's name and the customId null.
C23_NameAndCustomIdFromOverride ==
  UploadSucceeded =>
    /\ Len(resp.entries) = Len(files)
    /\ \A i \in 1..Len(files) :
         IF metadata.hasFiles
           THEN /\ resp.entries[i].name =
                     IF metadata.files[i].name # "none"
                       THEN metadata.files[i].name ELSE files[i].name
                /\ resp.entries[i].customId =
                     IF metadata.files[i].customId # "none"
                       THEN metadata.files[i].customId ELSE "null"
           ELSE /\ resp.entries[i].name = files[i].name
                /\ resp.entries[i].customId = "null"

\* One entry is renamed with a customId, the other keeps the client's name.
C23_Witness ==
  /\ UploadSucceeded
  /\ metadata.hasFiles
  /\ Len(files) = 2
  /\ resp.entries[1].name = "z.png"
  /\ resp.entries[1].customId = "id1"
  /\ resp.entries[2].name = files[2].name
  /\ resp.entries[2].customId = "id2"

SimulatedCallbacks == SelectSeq(netCalls, LAMBDA c : c.kind = "callback")

\* C24: in development mode the callbacks simulated so far are, in order,
\* one per record the stream has yielded, each with the record's payload
\* as body and its signature as header, the last record's callback being
\* the only one that may still be to come; no record is pulled while a
\* callback is under way, a callback that fails leaves the stream running,
\* and the response to the upload stays the success.
C24_OneCallbackPerRecord ==
  /\ []( /\ Len(stream) > 0 => (isDevelopment /\ fiber.kind = "devStream")
         /\ Len(SimulatedCallbacks) =
              IF fiber.stage = "record" THEN Len(stream) - 1 ELSE Len(stream)
         /\ \A k \in 1..Len(SimulatedCallbacks) :
              /\ SimulatedCallbacks[k].fileKey = stream[k].payload.fileKey
              /\ SimulatedCallbacks[k].metadata = stream[k].payload.metadata
              /\ SimulatedCallbacks[k].signature = stream[k].signature
              /\ SimulatedCallbacks[k].hook = "callback"
              /\ SimulatedCallbacks[k].slug = req.slug
         /\ fiber.stage \in {"record", "calling"} => ~ ENABLED DevStreamRecord
         /\ (Responded /\ fiber.kind = "devStream") =>
              (resp.status = 200 /\ resp.kind = "presigneds") )
  /\ [][ fiber.stage = "calling" =>
           /\ fiber'.status = "running"
           /\ fiber'.stage \in {"calling", "sent"}
           /\ fiber'.logged = "none"
           /\ stream' = stream ]_vars

\* Two records were streamed and their callbacks simulated, in order.
C24_Witness ==
  /\ isDevelopment
  /\ Len(stream) = 2
  /\ stream[1] # stream[2]
  /\ Len(SimulatedCallbacks) = 2
  /\ SimulatedCallbacks[2].fileKey = stream[2].payload.fileKey
  /\ fiber.stage = "sent"
  /\ Responded

\* C25: every response to a request, that of GET, of a successful POST and
\* every error response, carries x-uploadthing-version set to the server's
\* version.
C25_AsStated ==
  Responded => resp.versionHeader = ServerVersion

StepRank(step) ==
  CASE step = "upload" -> 1
    [] step = "input" -> 2
    [] step = "middleware" -> 3
    [] step = "validate" -> 4
    [] step = "requests" -> 5
    [] step = "generate" -> 6
    [] step = "daemon" -> 7
    [] OTHER -> 8

MetadataCalls == SelectSeq(netCalls, LAMBDA c : c.kind = "route-metadata")

\* C30: within an upload action the middleware runs only once the input
\* has been validated; the files are validated only once the middleware
\* has run and the overrides are reconciled; a key is generated only once
\* the files have been validated; the route-metadata POST is sent only once
\* a key and URL exist for every file; and the action only moves forward
\* through its steps.
C30_StepsInOrder ==
  /\ []( handlers = << "handleUploadAction" >> =>
           /\ mwCalls > 0 =>
                /\ StepRank(pc) > StepRank("input")
                /\ thrown \notin InputErrors
                /\ failedAt \notin {"body", "input"}
           /\ (StepRank(pc) \in 4..7 \/ failedAt \in {"files", "defect", "generate"}) =>
                /\ mwCalls = 1
                /\ metadata # NoMetadata
                /\ Len(filesWithCustomIds) = Len(files)
           /\ (entropy > 0 \/ fileUploadRequests # <<>>) =>
                /\ assertFilesMeetConfig(files, ParsedConfig(req.slug)) = "ok"
                /\ failedAt # "files"
           /\ MetadataCalls # <<>> =>
                /\ Len(MetadataCalls) = 1
                /\ Len(presignedUrls) = Len(files)
                /\ \A i \in DOMAIN presignedUrls : presignedUrls[i].st = "done"
                /\ entropy = Len(files) )
  /\ [][ handlers = << "handleUploadAction" >> => StepRank(pc') >= StepRank(pc) ]_vars

\* The route-metadata POST of an upload of two files has been sent.
C30_Witness ==
  /\ handlers = << "handleUploadAction" >>
  /\ Len(files) = 2
  /\ Len(MetadataCalls) = 1
  /\ Len(MetadataCalls[1].fileKeys) = 2
  /\ mwCalls = 1
  /\ entropy = 2

\* What request r is to get back for its file i, from its own payload and
\* its own middleware result.
OwnName(r, i) ==
  IF uploads[r].md.hasFiles /\ uploads[r].md.files[i].name # "none"
    THEN uploads[r].md.files[i].name ELSE uploads[r].payload[i].name

OwnCustomId(r, i) ==
  IF uploads[r].md.hasFiles /\ uploads[r].md.files[i].customId # "none"
    THEN uploads[r].md.files[i].customId ELSE "null"

\* C27: two upload actions run with their steps interleaved in every way;
\* each is answered from its own payload and middleware result alone: an
\* error exactly when its own overrides or files break a rule, otherwise
\* one entry per file of its own, named and sized after its own files,
\* with keys made of the randomness it drew itself; and what it registers
\* is its own metadata with the keys it returned.
C27_UploadsIndependent ==
  \A r \in Requests :
    /\ uploads[r].resp.kind = "error" =>
         \/ /\ OverrideLengthMismatch(uploads[r].md, uploads[r].payload)
            /\ uploads[r].resp.message = "Files override must have the same length as files"
         \/ /\ ~ OverrideLengthMismatch(uploads[r].md, uploads[r].payload)
            /\ assertFilesMeetConfig(uploads[r].payload, ParsedConfig(TwoSlug)) # "ok"
            /\ uploads[r].resp.message = "Invalid config"
    /\ uploads[r].resp.kind = "presigneds" =>
         /\ ~ OverrideLengthMismatch(uploads[r].md, uploads[r].payload)
         /\ assertFilesMeetConfig(uploads[r].payload, ParsedConfig(TwoSlug)) = "ok"
         /\ Len(uploads[r].resp.entries) = Len(uploads[r].payload)
         /\ \A i \in 1..Len(uploads[r].payload) :
              LET entry == uploads[r].resp.entries[i]
              IN /\ entry.name = OwnName(r, i)
                 /\ entry.customId = OwnCustomId(r, i)
                 /\ entry.key.name = OwnName(r, i)
                 /\ entry.key.size = uploads[r].payload[i].size
                 /\ entry.key.nonce \in uploads[r].nonces
                 /\ entry.url.key = entry.key
                 /\ entry.url.size = uploads[r].payload[i].size
         /\ Cardinality(uploads[r].nonces) = Len(uploads[r].payload)
    /\ uploads[r].registered # NoCall =>
         /\ uploads[r].resp.kind = "presigneds"
         /\ uploads[r].registered.metadata = uploads[r].md
         /\ uploads[r].registered.fileKeys =
              [i \in 1..Len(uploads[r].payload) |-> uploads[r].resp.entries[i].key]
    /\ \A q \in Requests \ {r} : uploads[r].nonces \cap uploads[q].nonces = {}

\* Both actions, with different payloads and middleware results, have
\* registered their metadata.
C27_Witness ==
  /\ uploads[1].registered # NoCall
  /\ uploads[2].registered # NoCall
  /\ Len(uploads[1].payload) = 2
  /\ Len(uploads[2].payload) = 1
  /\ uploads[1].md.hasFiles
  /\ ~ uploads[2].md.hasFiles
  /\ \E n \in uploads[2].nonces : \E m \in uploads[1].nonces : n < m

\* C28: interrupting an upload that is under way aborts its XHR, and an
\* aborted XHR does nothing more: no load or error follows, and the upload
\* never exits with a success value.
C28_InterruptAbortsTransfer ==
  /\ []( xhr.exit = "interrupted" => xhr.state = "aborted" )
  /\ []( xhr.state = "aborted" => xhr.exit = "interrupted" )
  /\ [][ xhr.exit = "interrupted" => xhr' = xhr ]_vars

\* The upload was interrupted after part of the file had been sent.
C28_Witness ==
  /\ xhr.exit = "interrupted"
  /\ xhr.state = "aborted"
  /\ xhr.loaded > 0
  /\ xhr.loaded < xhr.size - xhr.rangeStart

\* C29: a transfer that fails, by an error event or by a response whose
\* status is outside 200-299, makes the upload exit with an UploadThingError
\* UPLOAD_FAILED; the upload exits with success only for a 2xx status.
C29_AsStated ==
  /\ (xhr.state = "errored" \/ (xhr.state = "loaded" /\ xhr.status \notin 200..299))
       => xhr.exit = "UPLOAD_FAILED"
  /\ xhr.exit = "success" => (xhr.state = "loaded" /\ xhr.status \in 200..299)

\* The keys of a list of {url, key, ...} entries, in order.
KeysOf(entries) == [i \in DOMAIN entries |-> entries[i].key]

\* C31: the route-metadata POST of an upload carries as fileKeys the keys
\* of the body the upload returns, in the same order, the metadata object
\* the middleware returned as it returned it, and the request's slug as
\* callbackSlug; there is at most one such POST, only an upload that
\* returns its presigneds makes it, and once the fiber is forked nothing
\* but its own start stands between the returned keys and the POST.
C31_PostKeysAreReturnedKeys ==
  /\ Len(MetadataCalls) <= 1
  /\ MetadataCalls # <<>> =>
       /\ handlers = << "handleUploadAction" >>
       /\ out.kind = "presigneds"
       /\ MetadataCalls[1].fileKeys = KeysOf(out.entries)
       /\ Len(MetadataCalls[1].fileKeys) = Len(files)
       /\ MetadataCalls[1].metadata = metadata
       /\ MetadataCalls[1].slug = req.slug
       /\ MetadataCalls[1].isDev = isDevelopment
       /\ failedAt = "none"
       /\ Responded => (resp.kind = "presigneds" /\ resp.entries = out.entries)
  /\ (Responded /\ resp.kind = "presigneds") =>
       /\ KeysOf(resp.entries) = KeysOf(out.entries)
       /\ MetadataCalls = <<>> =>
            (fiber.status = "running" /\ fiber.stage = "forked" /\ ENABLED MetadataSend)

\* An upload of two files whose keys were derived out of order, with
\* overrides from the middleware, was answered and its POST sent.
C31_Witness ==
  /\ Responded
  /\ resp.kind = "presigneds"
  /\ Len(resp.entries) = 2
  /\ resp.entries[1].key.nonce = 2
  /\ resp.entries[1].key # resp.entries[2].key
  /\ metadata.hasFiles
  /\ Len(MetadataCalls) = 1
  /\ MetadataCalls[1].fileKeys = << resp.entries[1].key, resp.entries[2].key >>

\* Validation of the declared files has passed for the upload action.
FilesValidated ==
  /\ handlers = << "handleUploadAction" >>
  /\ \/ pc \in {"requests", "generate", "daemon"}
     \/ pc = "done" /\ failedAt \in {"none", "defect", "generate"}

\* C32: once the declared files have passed validation, the type bucket of
\* every reconciled file resolves against the route's buckets, also for a
\* file the middleware renamed, and no upload action ends with a defect
\* in place of a tagged error.
C32_AsStated ==
  /\ FilesValidated =>
       \A i \in DOMAIN filesWithCustomIds :
         getTypeFromFileName(filesWithCustomIds[i].name,
                             DOMAIN ParsedConfig(req.slug)) # "InvalidFileType"
  /\ failedAt # "defect"
  /\ resp.kind # "defect"

\* The upload action has got past the validation of its input.
InputValidated ==
  /\ handlers = << "handleUploadAction" >>
  /\ \/ pc \in {"validate", "requests", "generate", "daemon"}
     \/ pc = "done" /\ failedAt \notin {"body", "input"}

\* C33: the middleware is invoked once, and only once, by an upload action
\* whose input was validated, whether or not its files then pass
\* validation; an action whose input is validated and whose middleware has
\* not run yet is about to run it; a request that is not dispatched to the
\* upload handler (a callback, a request the version check, the slug
\* lookup or the match turns away) or whose body or input is rejected
\* never invokes it.
C33_MiddlewareOncePerValidInput ==
  /\ []( /\ mwCalls \in {0, 1}
         /\ InputValidated => mwCalls = 1
         /\ failedAt \in {"middleware", "overrides", "files", "defect", "generate"} =>
              mwCalls = 1
         /\ pc = "middleware" => (mwCalls = 0 /\ ENABLED runRouteMiddleware)
         /\ handlers # << "handleUploadAction" >> => mwCalls = 0
         /\ failedAt \in {"config", "version", "slug", "body", "input",
                          "signature", "schema"} => mwCalls = 0
         /\ thrown \in InputErrors => mwCalls = 0 )
  /\ [][ mwCalls' # mwCalls =>
           /\ pc = "middleware"
           /\ handlers = << "handleUploadAction" >>
           /\ mwCalls' = mwCalls + 1 ]_vars

\* A batch whose middleware ran was then turned away by file validation.
C33_Witness ==
  /\ handlers = << "handleUploadAction" >>
  /\ failedAt = "files"
  /\ resp.code = "BAD_REQUEST"
  /\ metadata # NoMetadata
  /\ mwCalls = 1

\* The simulated callbacks that are over.
CallbacksOver ==
  IF fiber.stage = "calling"
    THEN Len(SimulatedCallbacks) - 1 ELSE Len(SimulatedCallbacks)

\* C34: in development mode a simulated callback that fails, with a
\* network error or an error response, is logged and no more: the fiber
\* goes on to await the next record, every record the stream yields
\* afterwards gets its simulated callback like the ones before, and the
\* fiber ends only where it awaits the stream, when the stream ends or a
\* chunk fails to decode.
C34_FailedCallbackDoesNotStopStream ==
  /\ []( fiber.kind = "devStream" =>
           /\ Len(fiber.ignored) = CallbacksOver
           /\ Len(SimulatedCallbacks) =
                IF fiber.stage = "record" THEN Len(stream) - 1 ELSE Len(stream)
           /\ \A k \in 1..Len(SimulatedCallbacks) :
                /\ SimulatedCallbacks[k].fileKey = stream[k].payload.fileKey
                /\ SimulatedCallbacks[k].signature = stream[k].signature
           /\ fiber.stage = "record" => ENABLED DevCallbackSend
           /\ ( /\ fiber.stage = "sent"
                /\ Len(stream) < MaxStream
                /\ \E record \in StreamRecords :
                     \A k \in 1..Len(stream) : stream[k] # record )
                => ENABLED DevStreamRecord )
  /\ [][ (fiber.kind = "devStream" /\ fiber.stage = "calling" /\ fiber' # fiber) =>
           /\ fiber'.status = "running"
           /\ fiber'.stage = "sent"
           /\ fiber'.logged = "none"
           /\ Len(fiber'.ignored) = Len(fiber.ignored) + 1 ]_vars
  /\ [][ (fiber.kind = "devStream" /\ fiber.status = "running"
            /\ fiber'.status # "running") =>
           /\ fiber.stage = "sent"
           /\ fiber'.logged \in {"none", "RequestError", "ResponseError", "ParseError"}
           /\ fiber'.ignored = fiber.ignored
           /\ netCalls' = netCalls ]_vars

\* The callback of the first record failed, the second record got its
\* callback all the same, which went through, and the stream then ended
\* normally.
C34_Witness ==
  /\ isDevelopment
  /\ Len(stream) = 2
  /\ fiber.ignored = << "failed", "none" >>
  /\ Len(SimulatedCallbacks) = 2
  /\ SimulatedCallbacks[2].fileKey = stream[2].payload.fileKey
  /\ fiber.status = "done"
  /\ fiber.logged = "none"

\* The request at hand was dealt with as Dispatch says.
DispatchedAs(outcome) ==
  CASE outcome = "version" -> failedAt = "version" /\ handlers = <<>>
    [] outcome = "slug" -> failedAt = "slug" /\ handlers = <<>>
    [] outcome = "upload" -> handlers = << "handleUploadAction" >>
    [] outcome = "callback" -> handlers = << "handleCallbackRequest" >>
    [] OTHER -> handlers = <<>> /\ failedAt = "none"

\* C35: every simulated callback the development fiber sends names the
\* slug of the upload, carries uploadthing-hook: callback, no actionType
\* and no version header, and a POST with these headers and parameters
\* passes the version check and the slug lookup of this handler and falls
\* into the callback case of its match; and the handler deals with every
\* POST as that classification says, so such a request goes to
\* handleCallbackRequest and never to the upload handler or its middleware.
C35_SimulatedCallbackClassifiedAsCallback ==
  /\ \A k \in 1..Len(SimulatedCallbacks) :
       LET c == SimulatedCallbacks[k]
       IN /\ c.slug = req.slug
          /\ c.slug \in DOMAIN router
          /\ c.hook = "callback"
          /\ c.actionType = "none"
          /\ c.version = "absent"
          /\ HeaderVersion(c.version) = ServerVersion
          /\ Dispatch(c.version, c.slug, c.actionType, c.hook) = "callback"
  /\ req.method = "POST" =>
       /\ DispatchedAs(Dispatch(req.clientVersion, req.slug, req.actionType, req.hook))
       /\ Dispatch(req.clientVersion, req.slug, req.actionType, req.hook) = "callback" =>
            (mwCalls = 0 /\ files = <<>> /\ failedAt \notin {"version", "slug"})

\* Two callbacks were simulated for an upload to the image route.
C35_Witness ==
  /\ isDevelopment
  /\ handlers = << "handleUploadAction" >>
  /\ req.slug = "imageUploader"
  /\ Len(SimulatedCallbacks) = 2
  /\ SimulatedCallbacks[1].slug = "imageUploader"
  /\ SimulatedCallbacks[2].version = "absent"
  /\ Dispatch("absent", "imageUploader", "none", "callback") = "callback"

\* C36: a POST whose version header differs from the server's version is
\* answered BAD_REQUEST "Client version mismatch" whatever its slug, hook
\* and actionType, before the route is looked up and before any handler,
\* middleware, resolver or outbound call; the slug lookup and the dispatch
\* are reached only by requests whose version passed; and a POST without
\* the header passes the check like one that sends the server's version.
C36_VersionCheckedFirst ==
  /\ (req.method = "POST" /\ HeaderVersion(req.clientVersion) # ServerVersion) =>
       /\ pc = "done"
       /\ failedAt = "version"
       /\ resp.status = 400
       /\ resp.code = "BAD_REQUEST"
       /\ resp.message = "Client version mismatch"
       /\ handlers = <<>>
       /\ callback = NoCallback
       /\ files = <<>>
       /\ mwCalls = 0
       /\ resolverCalls = 0
       /\ netCalls = <<>>
  /\ (failedAt = "slug" \/ handlers # <<>> \/ out # NoBody) =>
       HeaderVersion(req.clientVersion) = ServerVersion
  /\ (req.method = "POST" /\ req.clientVersion = "absent") =>
       /\ failedAt # "version"
       /\ HeaderVersion(req.clientVersion) = ServerVersion
       /\ RouteMissing(req.slug) => (failedAt = "slug" /\ resp.code = "NOT_FOUND")
       /\ ~ RouteMissing(req.slug) =>
            DispatchedAs(MatchAction(req.actionType, req.hook))

\* A callback request for an unknown slug and with another version was
\* turned away for its version.
C36_Witness ==
  /\ req.method = "POST"
  /\ req.clientVersion = OtherVersion
  /\ req.slug = "unknownSlug"
  /\ req.hook = "callback"
  /\ req.actionType = "none"
  /\ Responded
  /\ resp.code = "BAD_REQUEST"
  /\ failedAt = "version"

====
